---- MODULE Spec2Model ----
(***************************************************************************)
(* Job orchestration of the ComfyToGPU gateway: the /api/generate handler  *)
(* and its background task, the blocking handlers /api/edit-image and      *)
(* /api/generate-dual (src/src/server.ts), the poll loops of               *)
(* RunPodService.executeAsync and RunPodService.waitForCompletion, the     *)
(* single call of RunPodService.executeSync (src/src/runpod.ts), the       *)
(* in-memory job store, its periodic sweep and the status lookup.          *)
(*                                                                         *)
(* Spec runs one /api/generate job next to one waitForCompletion call;     *)
(* BlockSpec, StoreSpec, LookupSpec and SyncSpec run the other handlers    *)
(* next to one job, two jobs or a waitForCompletion call; LiveSpec is the  *)
(* background task alone under the fairness of the event loop.  BuildSpec  *)
(* applies RunPodService.buildWorkflow to the workflow files and NormSpec  *)
(* applies RunPodService.processOutput to the remote outputs.  QuotaSpec   *)
(* runs the requests through authenticateApiKey (src/src/auth.ts) and the  *)
(* usage counters of key-limits.json.                                      *)
(*                                                                         *)
(* The event loop is single threaded: an action is the code that runs      *)
(* between two suspension points (an await of a network call or of the     *)
(* poll-interval timer).  Time is in milliseconds and passes only in Tick. *)
(* Text is a sequence of chunks, so that concatenation (template strings)  *)
(* is sequence concatenation.  An optional value is << >> (absent) or      *)
(* <<v>> (present).                                                        *)
(***************************************************************************)
EXTENDS Integers, Sequences, FiniteSets, TLC

\* ---------------------------------------------------------------- bounds
\* the clock advances in poll-interval steps while it is below FineTime
FineTime == 5000
\* the clock advances in budget-size steps while it is below MidTime
MidTime == 600000
\* the clock advances in retention-size steps while it is below MaxTime
MaxTime == 3600000
\* at most MaxDrift targeted nodes of a workflow file are absent or drifted
MaxDrift == 1
\* Math.random() has RandomBits bits
RandomBits == 3
\* an images list of a remote output has at most MaxImages elements
MaxImages == 2
\* the limit of the limited API key in key-limits.json
QuotaLimit == 1

\* ------------------------------------------------------ program constants
maxWaitTime == 600000
pollInterval == 5000
coldStartAfter == 15000
waitPollInterval == 2000
retention == 3600000
sweepInterval == 600000
requestTimeout == 300000

\* ------------------------------------------------------------ data values
None == << >>
Some(v) == <<v>>

\* the local ids minted by POST /api/generate (each is minted once)
LocalIds == {"job_1", "job_2"}

\* the calls of RunPodService.waitForCompletion
Waiters == {"wait_1"}

\* the requests served by the blocking handlers, which await execute()
Blockers == {"edit_1", "dual_1"}

\* the route of a blocking request
Route(b) == IF b = "edit_1" THEN "edit-image" ELSE "generate-dual"

\* the calls of RunPodService.executeSync
Syncers == {"sync_1"}

\* the requests GET /api/status/:jobId that go to the remote
Lookers == {"look_1"}

\* the ids asked for by GET /api/status/:jobId: local ids and a remote id
LookupIds == LocalIds \cup {"rp_1"}

\* every caller of the RunPodService
Procs == LocalIds \cup Waiters \cup Blockers \cup Lookers \cup Syncers

\* the id the remote gives to the job submitted for a local id, and the id
\* a caller of waitForCompletion passes
RemoteIdOf(p) ==
    CASE p = "job_1" -> "rp_1"
      [] p = "job_2" -> "rp_2"
      [] p = "edit_1" -> "rp_e"
      [] p = "dual_1" -> "rp_d"
      [] p = "sync_1" -> "rp_s"
      [] OTHER -> "rp_w"

\* the maxWaitTime a caller of waitForCompletion passes (300000 by default)
WaitBudgets == {0, 300000}

Statuses == {"IN_QUEUE", "IN_PROGRESS", "COMPLETED", "FAILED", "CANCELLED", "TIMED_OUT"}
RemoteTerminal == {"COMPLETED", "FAILED", "CANCELLED", "TIMED_OUT"}
RemoteErrorStatuses == {"FAILED", "CANCELLED", "TIMED_OUT"}
LocalTerminal == {"completed", "failed"}

\* error.message of a failed axios call
AxiosErrors == {"Network Error"}

\* error.message of an axios call that ran into its timeout option
AxiosTimeout == "timeout of 300000ms exceeded"

\* an element of an images list of the remote output
StrImg(s) == [type |-> "string", str |-> s, data |-> "", image |-> "", base64 |-> ""]
ObjImg(d, i, b) == [type |-> "object", str |-> "", data |-> d, image |-> i, base64 |-> b]
NullImg == [type |-> "null", str |-> "", data |-> "", image |-> "", base64 |-> ""]

\* data.output: present is its truthiness, imagesIsArray is
\* Array.isArray(output.images), image is output.image ("" when falsy),
\* nodes are the values under the other keys
NodeOut(isNull, hasImages, imgs) == [isNull |-> isNull, hasImages |-> hasImages, images |-> imgs]
Output(present, isArr, imgs, image, nodes) ==
    [present |-> present, imagesIsArray |-> isArr, images |-> imgs, image |-> image, nodes |-> nodes]
NoOutput == Output(FALSE, FALSE, << >>, "", << >>)
FlatOutput(imgs) == Output(TRUE, TRUE, imgs, "", << >>)
SingleOutput(s) == Output(TRUE, FALSE, << >>, s, << >>)
NodesOutput(nodes) == Output(TRUE, FALSE, << >>, "", nodes)

\* the outputs the remote of the state machine answers with
JobOutputs ==
    { FlatOutput(<<StrImg("aGVsbG8=")>>),
      FlatOutput(<<StrImg("aGVsbG8="), StrImg("d29ybGQ=")>>),
      FlatOutput(<<NullImg>>),
      NoOutput }

\* a RunPodJob as returned by GET /status/{id}
RunPodJob(id, s, e, o) == [id |-> id, status |-> s, error |-> e, output |-> o]

\* the error field of a status response: absent, empty or a message
RemoteErrors == {None, Some(""), Some("OOM")}

\* the responses of GET /status/{id} the remote of the state machine gives
JobResponses(id) ==
    { RunPodJob(id, s, None, NoOutput) : s \in {"IN_QUEUE", "IN_PROGRESS", "CANCELLED", "TIMED_OUT"} }
    \cup { RunPodJob(id, "COMPLETED", None, o) : o \in JobOutputs }
    \cup { RunPodJob(id, "FAILED", e, NoOutput) : e \in RemoteErrors }

\* a smaller remote, for a job that runs next to the requests under study
BriefResponses(id) ==
    { RunPodJob(id, "IN_QUEUE", None, NoOutput),
      RunPodJob(id, "COMPLETED", None, FlatOutput(<<StrImg("aGVsbG8=")>>)),
      RunPodJob(id, "FAILED", Some("OOM"), NoOutput) }

NoJob == RunPodJob("", "", None, NoOutput)

\* the outputs processOutput is studied on: lists of at most MaxImages
\* elements of every kind, alone and next to the other shapes
ImageData == {"aGVsbG8=", "d29ybGQ="}
ListElements ==
    { StrImg(s) : s \in ImageData } \cup { ObjImg(s, "", "") : s \in ImageData }
    \cup { ObjImg("", "aGVsbG8=", ""), ObjImg("", "", "d29ybGQ="), NullImg }
Lists(n) == UNION { [1 .. k -> ListElements] : k \in 0 .. n }
NodeOuts(n) ==
    { NodeOut(TRUE, FALSE, << >>), NodeOut(FALSE, FALSE, << >>) }
    \cup { NodeOut(FALSE, TRUE, l) : l \in Lists(n) }
RemoteOutputs ==
    { NoOutput, SingleOutput("c2luZ2xl") }
    \cup { FlatOutput(l) : l \in Lists(MaxImages) }
    \cup { NodesOutput(<<n>>) : n \in NodeOuts(MaxImages) }
    \cup { NodesOutput(<<a, b>>) : a \in NodeOuts(1), b \in NodeOuts(1) }
    \cup { Output(TRUE, TRUE, l, image, nodes) :
              l \in Lists(1), image \in {"", "c2luZ2xl"},
              nodes \in {<< >>} \cup { <<n>> : n \in NodeOuts(1) } }
    \cup { Output(TRUE, FALSE, << >>, "c2luZ2xl", <<n>>) : n \in NodeOuts(1) }
NormalizerInputs == { RunPodJob("rp_n", "COMPLETED", None, o) : o \in RemoteOutputs }

\* ------------------------------------------------------ result normalizer
\* one element of output.images (runpod.ts 378-385): a null element makes
\* img.data throw
FlatStep(img) ==
    IF img.type = "string" THEN [thrown |-> FALSE, found |-> <<img.str>>]
    ELSE IF img.type = "null" THEN [thrown |-> TRUE, found |-> << >>]
    ELSE IF img.data # "" THEN [thrown |-> FALSE, found |-> <<img.data>>]
    ELSE [thrown |-> FALSE, found |-> << >>]

\* mutant: only the raw strings of a node's images are taken
NodeStep_StringsOnly(img) ==
    IF img.type = "string" THEN [thrown |-> FALSE, found |-> <<img.str>>]
    ELSE IF img.type = "null" THEN [thrown |-> TRUE, found |-> << >>]
    ELSE [thrown |-> FALSE, found |-> << >>]

\* one element of a node's images (runpod.ts 401-411)
NodeStep(img) ==
    IF img.type = "string" THEN [thrown |-> FALSE, found |-> <<img.str>>]
    ELSE IF img.type = "null" THEN [thrown |-> TRUE, found |-> << >>]
    ELSE IF img.data # "" THEN [thrown |-> FALSE, found |-> <<img.data>>]
    ELSE IF img.image # "" THEN [thrown |-> FALSE, found |-> <<img.image>>]
    ELSE IF img.base64 # "" THEN [thrown |-> FALSE, found |-> <<img.base64>>]
    ELSE [thrown |-> FALSE, found |-> << >>]

\* mutant: the images are collected in reverse order
RECURSIVE ExtractFlat_Reversed(_)
ExtractFlat_Reversed(imgs) ==
    IF imgs = << >> THEN [thrown |-> FALSE, found |-> << >>]
    ELSE LET h == FlatStep(Head(imgs)) IN
         IF h.thrown THEN h
         ELSE LET t == ExtractFlat_Reversed(Tail(imgs)) IN
              [thrown |-> t.thrown, found |-> t.found \o h.found]

\* data.output.images.forEach (runpod.ts 378-385)
RECURSIVE ExtractFlat(_)
ExtractFlat(imgs) ==
    IF imgs = << >> THEN [thrown |-> FALSE, found |-> << >>]
    ELSE LET h == FlatStep(Head(imgs)) IN
         IF h.thrown THEN h
         ELSE LET t == ExtractFlat(Tail(imgs)) IN
              [thrown |-> t.thrown, found |-> h.found \o t.found]

RECURSIVE ExtractNodeImages(_)
ExtractNodeImages(imgs) ==
    IF imgs = << >> THEN [thrown |-> FALSE, found |-> << >>]
    ELSE LET h == NodeStep(Head(imgs)) IN
         IF h.thrown THEN h
         ELSE LET t == ExtractNodeImages(Tail(imgs)) IN
              [thrown |-> t.thrown, found |-> h.found \o t.found]

\* Object.keys(data.output).forEach (runpod.ts 395-413): a null node output
\* makes nodeOutput.images throw
RECURSIVE ExtractNodes(_)
ExtractNodes(nodes) ==
    IF nodes = << >> THEN [thrown |-> FALSE, found |-> << >>]
    ELSE LET n == Head(nodes)
             h == IF n.isNull THEN [thrown |-> TRUE, found |-> << >>]
                  ELSE IF n.hasImages THEN ExtractNodeImages(n.images)
                  ELSE [thrown |-> FALSE, found |-> << >>]
         IN IF h.thrown THEN h
            ELSE LET t == ExtractNodes(Tail(nodes)) IN
                 [thrown |-> t.thrown, found |-> h.found \o t.found]

ExtractImages(output) ==
    IF ~output.present THEN [thrown |-> FALSE, found |-> << >>]
    ELSE IF output.imagesIsArray THEN ExtractFlat(output.images)
    ELSE IF output.image # "" THEN [thrown |-> FALSE, found |-> <<output.image>>]
    ELSE ExtractNodes(output.nodes)

\* RunPodService.processOutput: the GenerateResult
processOutput(data) ==
    LET x == ExtractImages(data.output) IN
    IF x.thrown
    THEN [success |-> FALSE, jobId |-> data.id, images |-> << >>, status |-> None]
    ELSE [success |-> TRUE, jobId |-> data.id, images |-> x.found, status |-> Some(data.status)]

\* ------------------------------------------------- workflow parameterizer
\* a JSON value of a node input: a string or a number; a number is written
\* in three limbs of base Limb, most significant first, so that the seed
\* range 10^15 = Limb^3 is within reach
Limb == 100000
Str(s) == [kind |-> "string", str |-> s, num |-> <<0, 0, 0>>]
Num(limbs) == [kind |-> "number", str |-> "", num |-> limbs]
Number(n) == Num(<<0, 0, n>>)

\* the truthiness of a JSON value
Truthy(v) == v # Str("") /\ v # Number(0)

\* a node of the workflow: inputs is absent, or a mapping of field to value
Node(class, inputs) == [class_type |-> class, inputs |-> inputs]
NoFields == [f \in {} |-> Str("")]

\* the node ids buildWorkflow rewrites, and one it only logs
TargetIds == {"111", "110", "37", "38", "39", "66", "75", "3"}
NodeIds == TargetIds \cup {"440"}

\* a node as the workflow editor saves it (UI format)
UiNode(n) ==
    CASE n = "111" -> Node("TextEncodeQwenImageEdit", Some("text" :> Str("a prompt of the template")))
      [] n = "110" -> Node("TextEncodeQwenImageEdit", Some("text" :> Str("blurry")))
      [] n = "37" -> Node("UNETLoader", Some("filename" :> Str("qwen_image_edit.safetensors")))
      [] n = "38" -> Node("CLIPLoader", Some("filename" :> Str("qwen_2.5_vl_7b.safetensors")))
      [] n = "39" -> Node("VAELoader", Some("filename" :> Str("qwen_image_vae.safetensors")))
      [] n = "66" -> Node("ModelSamplingAuraFlow", Some("value" :> Number(3)))
      [] n = "75" -> Node("CFGNorm", Some("value" :> Number(0)))
      [] n = "3" -> Node("KSampler", Some("seed" :> Number(42) @@ "steps" :> Number(4)))
      [] OTHER -> Node("LoraLoader", Some("strength_model" :> Str("0.31") @@ "strength_clip" :> Number(1)))

\* the field of a node that buildWorkflow reads or overwrites
FieldOf(n) ==
    CASE n \in {"37", "38", "39"} -> "filename"
      [] n \in {"66", "75"} -> "value"
      [] n = "3" -> "seed"
      [] OTHER -> "text"

\* what schema drift leaves of a node: no inputs, inputs without fields, or
\* an empty string in its field
DriftKinds == {"noInputs", "noFields", "emptyField"}
Drifted(n, kind) ==
    CASE kind = "noInputs" -> Node(UiNode(n).class_type, None)
      [] kind = "noFields" -> Node(UiNode(n).class_type, Some(NoFields))
      [] OTHER -> Node(UiNode(n).class_type, Some(FieldOf(n) :> Str("")))

\* the workflows in which the nodes of miss are absent and those of drift
\* have drifted
WorkflowsOf(miss, drift) ==
    { [n \in NodeIds \ miss |-> IF n \in drift THEN Drifted(n, kinds[n]) ELSE UiNode(n)] :
        kinds \in [drift -> DriftKinds] }

Workflows ==
    UNION { WorkflowsOf(odd \cap miss, odd \ miss) :
              odd \in { s \in SUBSET TargetIds : Cardinality(s) <= MaxDrift },
              miss \in SUBSET TargetIds }

\* the workflow file: it does not parse, or its JSON holds the workflow
\* bare or under input.workflow
NoWorkflow == [n \in {} |-> UiNode(n)]
Wrapped_Input(w) == "input" :> [workflow |-> w]
WorkflowFile(parses, json) == [parses |-> parses, json |-> json]
UiFile == WorkflowFile(TRUE, Wrapped_Input([n \in NodeIds |-> UiNode(n)]))

WorkflowFiles ==
    { WorkflowFile(TRUE, w) : w \in Workflows }
    \cup { WorkflowFile(TRUE, Wrapped_Input(w)) : w \in Workflows }
    \cup { WorkflowFile(FALSE, NoWorkflow) }

\* the callers of buildWorkflow and the prompt each passes
Calls == {"call_1", "call_2"}
PromptOf(c) == IF c = "call_1" THEN "a red fox" ELSE "a blue bird"

\* Math.random(): a multiple m of 2^-RandomBits in [0, 1)
Randoms == 0 .. 2 ^ RandomBits - 1

\* Math.floor(Math.random() * 1000000000000000) (runpod.ts 333), by long
\* division of m * Limb^3 by 2^RandomBits
randomSeed(m) ==
    LET d == 2 ^ RandomBits
        n1 == m * Limb
        n2 == (n1 % d) * Limb
        n3 == (n2 % d) * Limb
    IN <<n1 \div d, n2 \div d, n3 \div d>>

\* workflow[n] && workflow[n].inputs
HasInputs(w, n) == n \in DOMAIN w /\ w[n].inputs # None

\* workflow[n].inputs.f = v for every field f of fields
Assign(w, n, fields) ==
    LET old == w[n].inputs[1] IN
    [w EXCEPT ![n].inputs =
        Some([f \in DOMAIN old \cup DOMAIN fields |->
                 IF f \in DOMAIN fields THEN fields[f] ELSE old[f]])]

\* runpod.ts 289-293
PositivePrompt(w, prompt) ==
    IF HasInputs(w, "111")
    THEN Assign(w, "111", "text" :> Str(prompt) @@ "prompt" :> Str(prompt))
    ELSE w

\* mutant: the negative prompt is appended to the text of the node
NegativePrompt_Append(w) ==
    IF HasInputs(w, "110")
    THEN Assign(w, "110",
                "text" :> (IF "text" \in DOMAIN w["110"].inputs[1]
                           THEN Str(w["110"].inputs[1]["text"].str \o ", ugly")
                           ELSE Str(", ugly"))
                @@ "prompt" :> Str(""))
    ELSE w

\* runpod.ts 295-299
NegativePrompt(w) ==
    IF HasInputs(w, "110")
    THEN Assign(w, "110", "text" :> Str("") @@ "prompt" :> Str(""))
    ELSE w

\* workflow[n].inputs.filename, workflow[n].inputs.value
HasField(w, n, f) == HasInputs(w, n) /\ f \in DOMAIN w[n].inputs[1]

\* mutant: a loader node gets its API fields whether it has a filename or not
ConvertLoader_Always(w, n, name, more) ==
    IF n \in DOMAIN w
    THEN [w EXCEPT ![n].inputs =
            Some((name :> (IF HasField(w, n, "filename")
                           THEN w[n].inputs[1]["filename"] ELSE Str(""))) @@ more
                 @@ (IF w[n].inputs = None THEN NoFields ELSE w[n].inputs[1]))]
    ELSE w

\* runpod.ts 301-317: a loader node with a filename gets the API field name
\* and the fixed fields more
ConvertLoader(w, n, name, more) ==
    IF HasField(w, n, "filename") /\ Truthy(w[n].inputs[1]["filename"])
    THEN Assign(w, n, (name :> w[n].inputs[1]["filename"]) @@ more)
    ELSE w

ConvertLoaders(w) ==
    LET a == ConvertLoader(w, "37", "unet_name", "weight_dtype" :> Str("default"))
        b == ConvertLoader(a, "38", "clip_name", "type" :> Str("qwen_image"))
    IN ConvertLoader(b, "39", "vae_name", NoFields)

\* runpod.ts 322-330: inputs.value !== undefined is copied to the API field
CopyValue(w, n, name) ==
    IF HasField(w, n, "value")
    THEN Assign(w, n, name :> w[n].inputs[1]["value"])
    ELSE w

\* mutant: the seed is counted from one
RandomizeSeed_FromOne(w, m) ==
    IF HasInputs(w, "3") THEN Assign(w, "3", "seed" :> Num(randomSeed(m + 1))) ELSE w

\* runpod.ts 332-336
RandomizeSeed(w, m) ==
    IF HasInputs(w, "3") THEN Assign(w, "3", "seed" :> Num(randomSeed(m))) ELSE w

\* workflowData.input?.workflow || workflowData (runpod.ts 283)
ExtractWorkflow(workflowData) ==
    IF "input" \in DOMAIN workflowData
    THEN workflowData["input"].workflow
    ELSE workflowData

\* mutant: the nodes that are not rewritten are dropped from the workflow
Rewrite_TargetsOnly(w, prompt, m) ==
    LET a == RandomizeSeed(
                 CopyValue(CopyValue(ConvertLoaders(NegativePrompt(PositivePrompt(w, prompt))),
                                     "66", "shift"), "75", "strength"), m)
    IN [n \in DOMAIN a \cap TargetIds |-> a[n]]

\* runpod.ts 289-336: the rewrites in the order of the code
Rewrite(w, prompt, m) ==
    RandomizeSeed(
        CopyValue(CopyValue(ConvertLoaders(NegativePrompt(PositivePrompt(w, prompt))),
                            "66", "shift"), "75", "strength"), m)

\* RunPodService.buildWorkflow: the workflow it returns, or the throw of
\* the catch of the load
buildWorkflow(file, prompt, m) ==
    IF ~file.parses
    THEN [thrown |-> TRUE, workflow |-> NoWorkflow]
    ELSE [thrown |-> FALSE, workflow |-> Rewrite(ExtractWorkflow(file.json), prompt, m)]

\* ------------------------------------------------------------ error texts
OrUnknown(e) == IF e = None \/ e = Some("") THEN "Unknown error" ELSE e[1]

ToLower(s) ==
    CASE s = "FAILED" -> "failed"
      [] s = "CANCELLED" -> "cancelled"
      [] s = "TIMED_OUT" -> "timed_out"
      [] OTHER -> s

TemplateLoadMsg == <<"Failed to load ComfyUI workflow file">>
TimeoutMsg == <<"Job timed out waiting for completion">>
StatusQueryMsg(e) == <<"Failed to get job status: ", e>>
\* mutant: the remote error message is dropped
JobFailedMsg_NoDetail(job) == <<"Job failed: ", "Unknown error">>

\* executeAsync, runpod.ts 182
JobFailedMsg(job) == <<"Job failed: ", OrUnknown(job.error)>>
\* waitForCompletion, runpod.ts 241
WaitFailedMsg(job) == <<"Job ", ToLower(job.status), ": ", OrUnknown(job.error)>>
\* the catch of executeAsync, runpod.ts 202
Wrapped(msg) == <<"RunPod execution failed: ">> \o msg


\* --------------------------------------------------------- authentication
\* VALID_API_KEYS (auth.ts 9-11), the keys of API_ACCESS_KEYS
VALID_API_KEYS == {"key_ltd", "key_inf", "key_open"}

\* the x-api-key header of a request: absent, a key that is not valid, or a
\* valid key
Headers == {None} \cup { Some(k) : k \in VALID_API_KEYS \cup {"key_bad"} }

\* key-limits.json: key_ltd has a finite limit, key_inf the limit -1
\* (unlimited), key_open and key_bad are not listed
KeyData(limit, used) == [limit |-> limit, used |-> used]
KeyLimitsFile(used) == ("key_ltd" :> KeyData(QuotaLimit, used)) @@ ("key_inf" :> KeyData(-1, 0))
KeyLimitsFiles == { KeyLimitsFile(used) : used \in 0 .. QuotaLimit }

\* checkKeyLimit (auth.ts 44-69) on the limits loadKeyLimits returned
checkKeyLimit(limits, apiKey) ==
    IF apiKey \notin DOMAIN limits THEN [allowed |-> TRUE, remaining |-> -1]
    ELSE IF limits[apiKey].limit = -1 THEN [allowed |-> TRUE, remaining |-> -1]
    ELSE IF limits[apiKey].used >= limits[apiKey].limit
         THEN [allowed |-> FALSE, remaining |-> 0]
    ELSE [allowed |-> TRUE, remaining |-> limits[apiKey].limit - limits[apiKey].used]

\* incrementKeyUsage (auth.ts 72-80): the limits saveKeyLimits writes
incrementKeyUsage(limits, apiKey) ==
    IF apiKey \in DOMAIN limits
    THEN [limits EXCEPT ![apiKey].used = @ + 1]
    ELSE limits

\* a path is the sequence of its segments
RoutePath(route) ==
    IF route = "status" THEN <<"api", "status", ":jobId">> ELSE <<"api", route>>

StartsWith(path, prefix) ==
    /\ Len(path) >= Len(prefix)
    /\ SubSeq(path, 1, Len(prefix)) = prefix

\* req.path inside a middleware mounted by app.use(mount, ...): express
\* strips the mount path
MountedPath(mount, path) ==
    IF StartsWith(path, mount) THEN SubSeq(path, Len(mount) + 1, Len(path)) ELSE path

\* authenticateApiKey (auth.ts 82-126) for the req.path it sees: the status
\* code it answers with, or 0 when it calls next()
authenticateApiKey(limits, header, path) ==
    IF header = None THEN 401
    ELSE IF header[1] \notin VALID_API_KEYS THEN 403
    ELSE LET isStatusOrQuotaCheck ==
                 StartsWith(path, <<"api", "status">>) \/ path = <<"api", "quota">>
         IN IF ~isStatusOrQuotaCheck /\ ~checkKeyLimit(limits, header[1]).allowed
            THEN 429
            ELSE 0

\* the req.path of each authenticateApiKey a request of a route runs
\* through: the route-level one of /api/status/:jobId (server.ts 112), the
\* one mounted on /api/ for the routes registered after it (server.ts 156),
\* and both for /api/edit-image (server.ts 432)
AuthPaths(route) ==
    IF route = "status" THEN <<RoutePath(route)>>
    ELSE IF route = "edit-image"
    THEN <<MountedPath(<<"api">>, RoutePath(route)), RoutePath(route)>>
    ELSE <<MountedPath(<<"api">>, RoutePath(route))>>

\* the answer of the first authenticateApiKey that refuses, 0 if none does
RECURSIVE Admission(_, _, _)
Admission(limits, header, paths) ==
    IF paths = << >> THEN 0
    ELSE LET code == authenticateApiKey(limits, header, Head(paths)) IN
         IF code # 0 THEN code ELSE Admission(limits, header, Tail(paths))

\* the error field of a refusal (auth.ts 91-115, server.ts 246, 337, 439)
RefusalText(code, route) ==
    CASE code = 401 -> <<"Authentication required">>
      [] code = 403 -> <<"Invalid API Key">>
      [] code = 429 -> <<"Rate limit exceeded">>
      [] route = "generate-dual" -> <<"Both prompt1 and prompt2 are required">>
      [] route = "edit-image" -> <<"Image and edit prompt are required">>
      [] OTHER -> <<"Prompt is required">>

\* ------------------------------------------------------------------ state
VARIABLES
    now,        \* Date.now()
    nextSweep,  \* when the setInterval timer of the sweep is next due
    jobStore,   \* the Map jobStore: local id -> JobRecord
    pc,         \* where each background task or waitForCompletion call is suspended
    remoteId,   \* jobId of the loop: response.data.id of POST /run, or the argument
    budget,     \* maxWaitTime of the loop
    startTime,  \* startTime of the loop
    timer,      \* when the poll-interval timer of the loop is due (0: none, or due)
    polls,      \* number of status queries the loop has issued
    inflight,   \* number of status queries of the loop not yet resolved
    last,       \* the RunPodJob the latest resolved status query returned
    queryErrors,\* number of status queries of the loop that failed in transport
    outcome,    \* how execute() or waitForCompletion() settled
    writes,     \* the statuses written by jobStore.set for a local id, in order
    posts,      \* number of POSTs (/run, /runsync) issued for each caller
    response,   \* the HTTP response sent by the latest step, if it sent one
    signals,    \* the warning signals logged by the latest step
    workflowFile, \* the file at workflowPath
    workflow,   \* what buildWorkflow gave each of its callers
    random,     \* the Math.random() of each call of buildWorkflow
    jobData,    \* the RunPodJob handed to processOutput
    normalized, \* the GenerateResult processOutput returned for jobData
    req,        \* the x-api-key header and the body of each request
    keyLimits   \* the file key-limits.json

vars == <<now, nextSweep, jobStore, pc, remoteId, budget, startTime, timer, polls,
          inflight, last, queryErrors, outcome, writes, posts, response, signals,
          workflowFile, workflow, random, jobData, normalized, req, keyLimits>>

\* the state of the functions that are studied on their own
pureVars == <<workflowFile, workflow, random, jobData, normalized>>

\* the requests and the quota file
quotaVars == <<req, keyLimits>>

\* a request: its x-api-key header, and whether its body has the fields the
\* handler requires (prompt; prompt1 and prompt2; imageBase64 and editPrompt)
Request(header, body) == [apiKey |-> header, body |-> body]

\* the middlewares and the validation of a handler: the status code the
\* request of p is refused with, 0 if it reaches the work of the handler
Gate(p, route) ==
    LET code == Admission(keyLimits, req[p].apiKey, AuthPaths(route)) IN
    IF code # 0 THEN code
    ELSE IF route \in {"generate", "generate-dual", "edit-image"} /\ ~req[p].body THEN 400
    ELSE 0

loopVars == <<remoteId, budget, startTime, timer, polls, inflight, last, queryErrors>>

\* JobRecord (server.ts 82-87)
JobRecord(status, result, error, startedAt) ==
    [status |-> status, result |-> result, error |-> error, startedAt |-> startedAt]

\* Map.set
MapSet(map, key, value) ==
    [k \in DOMAIN map \cup {key} |-> IF k = key THEN value ELSE map[k]]

\* Map.delete of every key of a set
MapDeleteAll(map, keys) ==
    [k \in DOMAIN map \ keys |-> map[k]]

\* res.json / res.status(code).json: the fields of the body the callers read
Reply(route, id, code, status, result, error) ==
    [route |-> route, id |-> id, code |-> code, status |-> status,
     result |-> result, error |-> error]

NoResponse == Reply("", "", 0, "", None, None)

\* a promise: pending, fulfilled with a GenerateResult, or rejected with an
\* Error whose message is error; cause names the throw statement
NoResult == [success |-> FALSE, jobId |-> "", images |-> << >>, status |-> None]
Unsettled == [state |-> "pending", result |-> NoResult, error |-> << >>, cause |-> ""]
Fulfilled(result) == [state |-> "fulfilled", result |-> result, error |-> << >>, cause |-> ""]
Rejected(cause, msg) == [state |-> "rejected", result |-> NoResult, error |-> msg, cause |-> cause]

Constructed ==
    /\ now = 0
    /\ nextSweep = sweepInterval
    /\ jobStore = << >>
    /\ pc = [p \in Procs |-> "idle"]
    /\ remoteId = [p \in Procs |-> None]
    /\ budget = [p \in Procs |-> 0]
    /\ startTime = [p \in Procs |-> 0]
    /\ timer = [p \in Procs |-> 0]
    /\ polls = [p \in Procs |-> 0]
    /\ inflight = [p \in Procs |-> 0]
    /\ last = [p \in Procs |-> NoJob]
    /\ queryErrors = [p \in Procs |-> 0]
    /\ outcome = [p \in Procs |-> Unsettled]
    /\ writes = [j \in LocalIds |-> << >>]
    /\ posts = [p \in Procs |-> 0]
    /\ response = NoResponse
    /\ signals = {}
    /\ workflow = [c \in Calls |-> None]
    /\ random = [c \in Calls |-> None]
    /\ normalized = None

\* every request carries a valid key that is not listed in key-limits.json
OpenRequests ==
    /\ req = [p \in Procs |-> Request(Some("key_open"), TRUE)]
    /\ keyLimits = KeyLimitsFile(0)

Init ==
    /\ Constructed
    /\ workflowFile = UiFile
    /\ jobData = NoJob
    /\ OpenRequests

\* a step that sends no HTTP response and logs no warning signal
Silent ==
    /\ response' = NoResponse
    /\ signals' = {}

\* the locals startTime and maxWaitTime of a poll loop go out of scope
LoopExit(p) ==
    /\ startTime' = [startTime EXCEPT ![p] = 0]
    /\ budget' = [budget EXCEPT ![p] = 0]

\* ------------------------------------------------- the background task
\* mutant: the catch only logs the error
TaskFailed_LogOnly(j, cause, msg) ==
    /\ outcome' = [outcome EXCEPT ![j] = Rejected(cause, msg)]
    /\ pc' = [pc EXCEPT ![j] = "done"]
    /\ LoopExit(j)
    /\ UNCHANGED <<jobStore, writes>>

\* mutant: the catch drops the record of the job that failed
TaskFailed_Forget(j, cause, msg) ==
    /\ jobStore' = MapDeleteAll(jobStore, {j})
    /\ writes' = [writes EXCEPT ![j] = Append(@, "failed")]
    /\ outcome' = [outcome EXCEPT ![j] = Rejected(cause, msg)]
    /\ pc' = [pc EXCEPT ![j] = "done"]
    /\ LoopExit(j)

\* mutant: the catch writes the status without the message
TaskFailed_NoMessage(j, cause, msg) ==
    /\ jobStore' = MapSet(jobStore, j, JobRecord("failed", None, None, now))
    /\ writes' = [writes EXCEPT ![j] = Append(@, "failed")]
    /\ outcome' = [outcome EXCEPT ![j] = Rejected(cause, msg)]
    /\ pc' = [pc EXCEPT ![j] = "done"]
    /\ LoopExit(j)

\* the catch of the background task (server.ts 313-320)
TaskFailed(j, cause, msg) ==
    /\ jobStore' = MapSet(jobStore, j, JobRecord("failed", None, Some(msg), now))
    /\ writes' = [writes EXCEPT ![j] = Append(@, "failed")]
    /\ outcome' = [outcome EXCEPT ![j] = Rejected(cause, msg)]
    /\ pc' = [pc EXCEPT ![j] = "done"]
    /\ LoopExit(j)

\* mutant: the local id is kept in one variable that all requests share
TaskCompleted_SharedId(j, result) ==
    /\ jobStore' = MapSet(jobStore, "job_2",
           JobRecord("completed",
                     Some([success |-> TRUE, jobId |-> result.jobId,
                           runpodJobId |-> result.jobId, images |-> result.images]),
                     None, now))
    /\ writes' = [writes EXCEPT ![j] = Append(@, "completed")]
    /\ outcome' = [outcome EXCEPT ![j] = Fulfilled(result)]
    /\ pc' = [pc EXCEPT ![j] = "done"]
    /\ LoopExit(j)
    /\ keyLimits' = IF req[j].apiKey # None
                    THEN incrementKeyUsage(keyLimits, req[j].apiKey[1])
                    ELSE keyLimits

\* the success path of the background task (server.ts 294-312): the record
\* is completed and the usage of the request's key is incremented
TaskCompleted(j, result) ==
    /\ jobStore' = MapSet(jobStore, j,
           JobRecord("completed",
                     Some([success |-> TRUE, jobId |-> result.jobId,
                           runpodJobId |-> result.jobId, images |-> result.images]),
                     None, now))
    /\ writes' = [writes EXCEPT ![j] = Append(@, "completed")]
    /\ outcome' = [outcome EXCEPT ![j] = Fulfilled(result)]
    /\ pc' = [pc EXCEPT ![j] = "done"]
    /\ LoopExit(j)
    /\ keyLimits' = IF req[j].apiKey # None
                    THEN incrementKeyUsage(keyLimits, req[j].apiKey[1])
                    ELSE keyLimits

\* mutant: the comparison of the while condition is reversed
WithinBudget_Reversed(p) == now - startTime[p] > budget[p]

\* mutant: the budget is counted in poll iterations, not in elapsed time
WithinBudget_CountPolls(p) == polls[p] * pollInterval < budget[p]

\* the while condition of the poll loops (runpod.ts 173, 233)
WithinBudget(p) == now - startTime[p] < budget[p]

\* this.getJobStatus(jobId) is called and awaited (runpod.ts 174, 234)
IssueQuery(p) ==
    /\ polls' = [polls EXCEPT ![p] = @ + 1]
    /\ inflight' = [inflight EXCEPT ![p] = @ + 1]
    /\ pc' = [pc EXCEPT ![p] = "status"]

\* tempJobId (server.ts 265): the ids are minted in order, each once
Fresh(j) ==
    /\ pc[j] = "idle"
    /\ j = "job_2" => pc["job_1"] # "idle"

\* mutant: the POST is sent before the template is loaded
Generate_PostBeforeBuild(j, templateOk) ==
    /\ Fresh(j)
    /\ Gate(j, "generate") = 0
    /\ response' = Reply("generate", j, 200, "pending", None, None)
    /\ signals' = {}
    /\ UNCHANGED <<pureVars, quotaVars>>
    /\ posts' = [posts EXCEPT ![j] = @ + 1]
    /\ IF templateOk
       THEN /\ jobStore' = MapSet(jobStore, j, JobRecord("processing", None, None, now))
            /\ writes' = [writes EXCEPT ![j] = <<"pending", "processing">>]
            /\ pc' = [pc EXCEPT ![j] = "run"]
            /\ UNCHANGED outcome
       ELSE /\ jobStore' = MapSet(jobStore, j,
                               JobRecord("failed", None, Some(TemplateLoadMsg), now))
            /\ writes' = [writes EXCEPT ![j] = <<"pending", "processing", "failed">>]
            /\ outcome' = [outcome EXCEPT ![j] = Rejected("template", TemplateLoadMsg)]
            /\ pc' = [pc EXCEPT ![j] = "done"]
    /\ UNCHANGED <<now, nextSweep, loopVars>>

\* mutant: the background task does not mark the record processing
Generate_SkipProcessing(j, templateOk) ==
    /\ Fresh(j)
    /\ Gate(j, "generate") = 0
    /\ response' = Reply("generate", j, 200, "pending", None, None)
    /\ signals' = {}
    /\ UNCHANGED <<pureVars, quotaVars>>
    /\ IF templateOk
       THEN /\ jobStore' = MapSet(jobStore, j, JobRecord("pending", None, None, now))
            /\ writes' = [writes EXCEPT ![j] = <<"pending">>]
            /\ pc' = [pc EXCEPT ![j] = "run"]
            /\ posts' = [posts EXCEPT ![j] = @ + 1]
            /\ UNCHANGED outcome
       ELSE /\ jobStore' = MapSet(jobStore, j,
                               JobRecord("failed", None, Some(TemplateLoadMsg), now))
            /\ writes' = [writes EXCEPT ![j] = <<"pending", "failed">>]
            /\ outcome' = [outcome EXCEPT ![j] = Rejected("template", TemplateLoadMsg)]
            /\ pc' = [pc EXCEPT ![j] = "done"]
            /\ UNCHANGED posts
    /\ UNCHANGED <<now, nextSweep, loopVars>>

\* POST /api/generate with a prompt (server.ts 242-330) up to the first
\* suspension of its background task: the pending record, the response, the
\* processing record, buildWorkflow and the POST /run of executeAsync.  A
\* template that cannot be loaded rejects execute(), and the catch runs as a
\* microtask before any other handler.
Generate(j, templateOk) ==
    /\ Fresh(j)
    /\ Gate(j, "generate") = 0
    /\ response' = Reply("generate", j, 200, "pending", None, None)
    /\ signals' = {}
    /\ UNCHANGED <<pureVars, quotaVars>>
    /\ IF templateOk
       THEN /\ jobStore' = MapSet(jobStore, j, JobRecord("processing", None, None, now))
            /\ writes' = [writes EXCEPT ![j] = <<"pending", "processing">>]
            /\ pc' = [pc EXCEPT ![j] = "run"]
            /\ posts' = [posts EXCEPT ![j] = @ + 1]
            /\ UNCHANGED outcome
       ELSE /\ jobStore' = MapSet(jobStore, j,
                               JobRecord("failed", None, Some(TemplateLoadMsg), now))
            /\ writes' = [writes EXCEPT ![j] = <<"pending", "processing", "failed">>]
            /\ outcome' = [outcome EXCEPT ![j] = Rejected("template", TemplateLoadMsg)]
            /\ pc' = [pc EXCEPT ![j] = "done"]
            /\ UNCHANGED posts
    /\ UNCHANGED <<now, nextSweep, loopVars>>

\* mutant: a failed POST /run is swallowed and the loop polls without an id
RunResolve_PollAnyway(j, ok, e) ==
    /\ pc[j] = "run"
    /\ Silent
    /\ UNCHANGED <<pureVars, quotaVars>>
    /\ remoteId' = [remoteId EXCEPT ![j] = IF ok THEN Some(RemoteIdOf(j)) ELSE None]
    /\ budget' = [budget EXCEPT ![j] = maxWaitTime]
    /\ startTime' = [startTime EXCEPT ![j] = now]
    /\ IssueQuery(j)
    /\ UNCHANGED <<jobStore, writes, outcome>>
    /\ UNCHANGED <<posts, now, nextSweep, timer, last, queryErrors>>

\* POST /run resolves (runpod.ts 146-174): on success the loop starts and
\* issues its first status query
RunResolve(j, ok, e) ==
    /\ pc[j] = "run"
    /\ Silent
    /\ UNCHANGED <<pureVars, quotaVars>>
    /\ IF ok
       THEN /\ remoteId' = [remoteId EXCEPT ![j] = Some(RemoteIdOf(j))]
            /\ budget' = [budget EXCEPT ![j] = maxWaitTime]
            /\ startTime' = [startTime EXCEPT ![j] = now]
            /\ IssueQuery(j)
            /\ UNCHANGED <<jobStore, writes, outcome>>
       ELSE /\ TaskFailed(j, "submit", Wrapped(<<e>>))
            /\ UNCHANGED <<remoteId, polls, inflight>>
    /\ UNCHANGED <<posts, now, nextSweep, timer, last, queryErrors>>

\* what executeAsync does with a status (runpod.ts 176-192)
AsyncVerdict(job) ==
    IF job.status = "COMPLETED" THEN "return"
    ELSE IF job.status = "FAILED" THEN "throw"
    ELSE "sleep"

\* the cold-start detection of executeAsync (runpod.ts 187-190): the signal
\* names the loop that logged it
ColdStartLog(p, job) ==
    IF job.status = "IN_QUEUE" /\ now - startTime[p] > coldStartAfter
    THEN {[kind |-> "coldStart", proc |-> p]}
    ELSE {}

\* mutant: getJobStatus is not awaited, the loop goes on to its delay
StatusResolve_NoAwait(j, job) ==
    /\ pc[j] = "status"
    /\ Silent
    /\ UNCHANGED <<pureVars, quotaVars>>
    /\ timer' = [timer EXCEPT ![j] = now + pollInterval]
    /\ pc' = [pc EXCEPT ![j] = "sleep"]
    /\ UNCHANGED <<posts, now, nextSweep, jobStore, remoteId, budget, startTime, polls,
                   inflight, last, queryErrors, outcome, writes>>

\* a status query of executeAsync resolves with a RunPodJob (runpod.ts 174-192)
StatusResolve(j, job) ==
    /\ pc[j] = "status"
    /\ response' = NoResponse
    /\ signals' = IF AsyncVerdict(job) = "sleep" THEN ColdStartLog(j, job) ELSE {}
    /\ UNCHANGED <<pureVars, req>>
    /\ inflight' = [inflight EXCEPT ![j] = @ - 1]
    /\ last' = [last EXCEPT ![j] = job]
    /\ CASE AsyncVerdict(job) = "return" ->
              /\ TaskCompleted(j, processOutput(job))
              /\ UNCHANGED timer
         [] AsyncVerdict(job) = "throw" ->
              /\ TaskFailed(j, "remote", Wrapped(JobFailedMsg(job)))
              /\ UNCHANGED <<timer, keyLimits>>
         [] OTHER ->
              /\ timer' = [timer EXCEPT ![j] = now + pollInterval]
              /\ pc' = [pc EXCEPT ![j] = "sleep"]
              /\ UNCHANGED <<jobStore, writes, outcome, budget, startTime, keyLimits>>
    /\ UNCHANGED <<posts, now, nextSweep, remoteId, polls, queryErrors>>

\* mutant: a failed status query is retried
StatusFail_Retry(j, e) ==
    /\ pc[j] = "status"
    /\ queryErrors[j] = 0
    /\ Silent
    /\ UNCHANGED <<pureVars, quotaVars>>
    /\ queryErrors' = [queryErrors EXCEPT ![j] = @ + 1]
    /\ polls' = [polls EXCEPT ![j] = @ + 1]
    /\ UNCHANGED <<posts, now, nextSweep, jobStore, pc, remoteId, budget, startTime, timer,
                   inflight, last, outcome, writes>>

\* a status query of executeAsync fails in transport (runpod.ts 220-223, 196-202)
StatusFail(j, e) ==
    /\ pc[j] = "status"
    /\ Silent
    /\ UNCHANGED <<pureVars, quotaVars>>
    /\ inflight' = [inflight EXCEPT ![j] = @ - 1]
    /\ queryErrors' = [queryErrors EXCEPT ![j] = @ + 1]
    /\ TaskFailed(j, "query", Wrapped(StatusQueryMsg(e)))
    /\ UNCHANGED <<posts, now, nextSweep, remoteId, timer, polls, last>>

\* mutant: each iteration of the loop submits the job again before it polls
Wake_Resubmit(j) ==
    /\ pc[j] = "sleep"
    /\ timer[j] = 0
    /\ Silent
    /\ UNCHANGED <<pureVars, quotaVars>>
    /\ IF WithinBudget(j)
       THEN /\ IssueQuery(j)
            /\ posts' = [posts EXCEPT ![j] = @ + 1]
            /\ UNCHANGED <<jobStore, writes, outcome, budget, startTime>>
       ELSE /\ TaskFailed(j, "timeout", Wrapped(TimeoutMsg))
            /\ UNCHANGED <<polls, inflight, posts>>
    /\ UNCHANGED <<now, nextSweep, remoteId, timer, last, queryErrors>>

\* the poll-interval timer of executeAsync has fired (runpod.ts 192, 173, 195)
Wake(j) ==
    /\ pc[j] = "sleep"
    /\ timer[j] = 0
    /\ Silent
    /\ UNCHANGED <<pureVars, quotaVars>>
    /\ IF WithinBudget(j)
       THEN /\ IssueQuery(j)
            /\ UNCHANGED <<jobStore, writes, outcome, budget, startTime>>
       ELSE /\ TaskFailed(j, "timeout", Wrapped(TimeoutMsg))
            /\ UNCHANGED <<polls, inflight>>
    /\ UNCHANGED <<posts, now, nextSweep, remoteId, timer, last, queryErrors>>

\* --------------------------------------------------- waitForCompletion
\* how waitForCompletion settles
WaitSettled(w, o) ==
    /\ outcome' = [outcome EXCEPT ![w] = o]
    /\ pc' = [pc EXCEPT ![w] = "done"]
    /\ LoopExit(w)

\* waitForCompletion(jobId, maxWaitTime) is called (runpod.ts 229-234, 248)
WaitStart(w, max) ==
    /\ pc[w] = "idle"
    /\ Silent
    /\ UNCHANGED <<pureVars, quotaVars>>
    /\ remoteId' = [remoteId EXCEPT ![w] = Some(RemoteIdOf(w))]
    /\ IF 0 < max
       THEN /\ budget' = [budget EXCEPT ![w] = max]
            /\ startTime' = [startTime EXCEPT ![w] = now]
            /\ IssueQuery(w)
            /\ UNCHANGED outcome
       ELSE /\ WaitSettled(w, Rejected("timeout", TimeoutMsg))
            /\ UNCHANGED <<polls, inflight>>
    /\ UNCHANGED <<posts, now, nextSweep, jobStore, timer, last, queryErrors, writes>>

\* what waitForCompletion does with a status (runpod.ts 238-245)
WaitVerdict(job) ==
    IF job.status = "COMPLETED" THEN "return"
    ELSE IF job.status \in {"FAILED", "CANCELLED", "TIMED_OUT"} THEN "throw"
    ELSE "sleep"

\* a status query of waitForCompletion resolves (runpod.ts 234-245)
WaitResolve(w, job) ==
    /\ pc[w] = "status"
    /\ Silent
    /\ UNCHANGED <<pureVars, quotaVars>>
    /\ inflight' = [inflight EXCEPT ![w] = @ - 1]
    /\ last' = [last EXCEPT ![w] = job]
    /\ CASE WaitVerdict(job) = "return" ->
              /\ WaitSettled(w, Fulfilled(processOutput(job)))
              /\ UNCHANGED timer
         [] WaitVerdict(job) = "throw" ->
              /\ WaitSettled(w, Rejected("remote", WaitFailedMsg(job)))
              /\ UNCHANGED timer
         [] OTHER ->
              /\ timer' = [timer EXCEPT ![w] = now + waitPollInterval]
              /\ pc' = [pc EXCEPT ![w] = "sleep"]
              /\ UNCHANGED <<outcome, budget, startTime>>
    /\ UNCHANGED <<posts, now, nextSweep, jobStore, remoteId, polls, queryErrors, writes>>

\* a status query of waitForCompletion fails in transport (runpod.ts 220-223)
WaitFail(w, e) ==
    /\ pc[w] = "status"
    /\ Silent
    /\ UNCHANGED <<pureVars, quotaVars>>
    /\ inflight' = [inflight EXCEPT ![w] = @ - 1]
    /\ queryErrors' = [queryErrors EXCEPT ![w] = @ + 1]
    /\ WaitSettled(w, Rejected("query", StatusQueryMsg(e)))
    /\ UNCHANGED <<posts, now, nextSweep, jobStore, remoteId, timer, polls, last, writes>>

\* the poll-interval timer of waitForCompletion has fired (runpod.ts 245, 233, 248)
WaitWake(w) ==
    /\ pc[w] = "sleep"
    /\ timer[w] = 0
    /\ Silent
    /\ UNCHANGED <<pureVars, quotaVars>>
    /\ IF WithinBudget(w)
       THEN /\ IssueQuery(w)
            /\ UNCHANGED <<outcome, budget, startTime>>
       ELSE /\ WaitSettled(w, Rejected("timeout", TimeoutMsg))
            /\ UNCHANGED <<polls, inflight>>
    /\ UNCHANGED <<posts, now, nextSweep, jobStore, remoteId, timer, last, queryErrors, writes>>

\* ------------------------------------------------ the blocking handlers
\* mutant: the catch records the failure in the job store, as the
\* background task of /api/generate does
BlockFailed_Recorded(b, cause, msg) ==
    /\ outcome' = [outcome EXCEPT ![b] = Rejected(cause, msg)]
    /\ pc' = [pc EXCEPT ![b] = "done"]
    /\ LoopExit(b)
    /\ response' = Reply(Route(b), b, 500, "", None, Some(msg))
    /\ jobStore' = MapSet(jobStore, b, JobRecord("failed", None, Some(msg), now))
    /\ UNCHANGED writes

\* the catch of a blocking handler (server.ts 354-360, 456-462): the error
\* message goes to the caller as details of a 500 response
BlockFailed(b, cause, msg) ==
    /\ outcome' = [outcome EXCEPT ![b] = Rejected(cause, msg)]
    /\ pc' = [pc EXCEPT ![b] = "done"]
    /\ LoopExit(b)
    /\ response' = Reply(Route(b), b, 500, "", None, Some(msg))
    /\ UNCHANGED <<jobStore, writes>>

\* the success path of a blocking handler (server.ts 348-353, 449-454)
BlockCompleted(b, result) ==
    /\ outcome' = [outcome EXCEPT ![b] = Fulfilled(result)]
    /\ pc' = [pc EXCEPT ![b] = "done"]
    /\ LoopExit(b)
    /\ response' = Reply(Route(b), b, 200, "",
                         Some([success |-> TRUE, images |-> result.images]), None)
    /\ UNCHANGED <<jobStore, writes>>

\* POST /api/edit-image or /api/generate-dual with its fields present
\* (server.ts 333-346, 431-447) up to the first suspension: buildWorkflow and
\* the POST /run of executeAsync
BlockStart(b, templateOk) ==
    /\ \A b2 \in Blockers : pc[b2] = "idle"
    /\ Gate(b, Route(b)) = 0
    /\ signals' = {}
    /\ UNCHANGED <<pureVars, quotaVars>>
    /\ IF templateOk
       THEN /\ pc' = [pc EXCEPT ![b] = "run"]
            /\ posts' = [posts EXCEPT ![b] = @ + 1]
            /\ response' = NoResponse
            /\ UNCHANGED <<jobStore, writes, outcome, budget, startTime>>
       ELSE /\ BlockFailed(b, "template", TemplateLoadMsg)
            /\ UNCHANGED posts
    /\ UNCHANGED <<now, nextSweep, remoteId, timer, polls, inflight, last, queryErrors>>

\* POST /run of a blocking request resolves (runpod.ts 146-174)
BlockRunResolve(b, ok, e) ==
    /\ pc[b] = "run"
    /\ signals' = {}
    /\ UNCHANGED <<pureVars, quotaVars>>
    /\ IF ok
       THEN /\ remoteId' = [remoteId EXCEPT ![b] = Some(RemoteIdOf(b))]
            /\ budget' = [budget EXCEPT ![b] = maxWaitTime]
            /\ startTime' = [startTime EXCEPT ![b] = now]
            /\ IssueQuery(b)
            /\ response' = NoResponse
            /\ UNCHANGED <<jobStore, writes, outcome>>
       ELSE /\ BlockFailed(b, "submit", Wrapped(<<e>>))
            /\ UNCHANGED <<remoteId, polls, inflight>>
    /\ UNCHANGED <<posts, now, nextSweep, timer, last, queryErrors>>

\* a status query of a blocking request resolves (runpod.ts 174-192)
BlockStatusResolve(b, job) ==
    /\ pc[b] = "status"
    /\ signals' = IF AsyncVerdict(job) = "sleep" THEN ColdStartLog(b, job) ELSE {}
    /\ UNCHANGED <<pureVars, quotaVars>>
    /\ inflight' = [inflight EXCEPT ![b] = @ - 1]
    /\ last' = [last EXCEPT ![b] = job]
    /\ CASE AsyncVerdict(job) = "return" ->
              /\ BlockCompleted(b, processOutput(job))
              /\ UNCHANGED timer
         [] AsyncVerdict(job) = "throw" ->
              /\ BlockFailed(b, "remote", Wrapped(JobFailedMsg(job)))
              /\ UNCHANGED timer
         [] OTHER ->
              /\ timer' = [timer EXCEPT ![b] = now + pollInterval]
              /\ pc' = [pc EXCEPT ![b] = "sleep"]
              /\ response' = NoResponse
              /\ UNCHANGED <<jobStore, writes, outcome, budget, startTime>>
    /\ UNCHANGED <<posts, now, nextSweep, remoteId, polls, queryErrors>>

\* a status query of a blocking request fails in transport
\* (runpod.ts 220-223, 196-202)
BlockStatusFail(b, e) ==
    /\ pc[b] = "status"
    /\ signals' = {}
    /\ UNCHANGED <<pureVars, quotaVars>>
    /\ inflight' = [inflight EXCEPT ![b] = @ - 1]
    /\ queryErrors' = [queryErrors EXCEPT ![b] = @ + 1]
    /\ BlockFailed(b, "query", Wrapped(StatusQueryMsg(e)))
    /\ UNCHANGED <<posts, now, nextSweep, remoteId, timer, polls, last>>

\* the poll-interval timer of a blocking request has fired
\* (runpod.ts 192, 173, 195)
BlockWake(b) ==
    /\ pc[b] = "sleep"
    /\ timer[b] = 0
    /\ signals' = {}
    /\ UNCHANGED <<pureVars, quotaVars>>
    /\ IF WithinBudget(b)
       THEN /\ IssueQuery(b)
            /\ response' = NoResponse
            /\ UNCHANGED <<jobStore, writes, outcome, budget, startTime>>
       ELSE /\ BlockFailed(b, "timeout", Wrapped(TimeoutMsg))
            /\ UNCHANGED <<polls, inflight>>
    /\ UNCHANGED <<posts, now, nextSweep, remoteId, timer, last, queryErrors>>

\* ---------------------------------------------------------- executeSync
\* executeSync(prompt) is called (runpod.ts 78-110): buildWorkflow, then the
\* POST /runsync with a timeout of 5 minutes
SyncStart(s, templateOk) ==
    /\ pc[s] = "idle"
    /\ Silent
    /\ UNCHANGED <<pureVars, quotaVars>>
    /\ IF templateOk
       THEN /\ pc' = [pc EXCEPT ![s] = "runsync"]
            /\ posts' = [posts EXCEPT ![s] = @ + 1]
            /\ startTime' = [startTime EXCEPT ![s] = now]
            /\ budget' = [budget EXCEPT ![s] = requestTimeout]
            /\ UNCHANGED outcome
       ELSE /\ outcome' = [outcome EXCEPT ![s] = Rejected("template", TemplateLoadMsg)]
            /\ pc' = [pc EXCEPT ![s] = "done"]
            /\ UNCHANGED <<posts, startTime, budget>>
    /\ UNCHANGED <<now, nextSweep, jobStore, remoteId, timer, polls, inflight, last,
                   queryErrors, writes>>

\* POST /runsync returns data before the timeout (runpod.ts 112-123): the
\* result is processOutput(data), whatever data.status is
SyncResolve(s, data) ==
    /\ pc[s] = "runsync"
    /\ WithinBudget(s)
    /\ Silent
    /\ UNCHANGED <<pureVars, quotaVars>>
    /\ last' = [last EXCEPT ![s] = data]
    /\ outcome' = [outcome EXCEPT ![s] = Fulfilled(processOutput(data))]
    /\ pc' = [pc EXCEPT ![s] = "done"]
    /\ LoopExit(s)
    /\ UNCHANGED <<posts, now, nextSweep, jobStore, remoteId, timer, polls, inflight,
                   queryErrors, writes>>

\* POST /runsync fails: in transport before the timeout, by the timeout
\* after 5 minutes (runpod.ts 124-131)
SyncFail(s, e) ==
    /\ pc[s] = "runsync"
    /\ e = AxiosTimeout <=> ~WithinBudget(s)
    /\ Silent
    /\ UNCHANGED <<pureVars, quotaVars>>
    /\ outcome' = [outcome EXCEPT ![s] = Rejected("submit", Wrapped(<<e>>))]
    /\ pc' = [pc EXCEPT ![s] = "done"]
    /\ LoopExit(s)
    /\ UNCHANGED <<posts, now, nextSweep, jobStore, remoteId, timer, polls, inflight,
                   last, queryErrors, writes>>

\* ------------------------------------------------------------ the store
\* mutant: a record is removed as soon as its age reaches the window
Expired_Inclusive(rec) == rec.startedAt <= now - retention

\* the test of the sweep (server.ts 93-95)
Expired(rec) == rec.startedAt < now - retention

\* the sweep (server.ts 92-100)
Sweep ==
    /\ now >= nextSweep
    /\ Silent
    /\ UNCHANGED <<pureVars, quotaVars>>
    /\ jobStore' = MapDeleteAll(jobStore, {k \in DOMAIN jobStore : Expired(jobStore[k])})
    /\ nextSweep' = ((now \div sweepInterval) + 1) * sweepInterval
    /\ UNCHANGED <<posts, now, pc, loopVars, outcome, writes>>

\* mutant: a lookup refreshes the age of the record it reads
Lookup_Touch(j) ==
    /\ j \in DOMAIN jobStore
    /\ response' = Reply("status", j, 200, jobStore[j].status,
                          jobStore[j].result, jobStore[j].error)
    /\ signals' = {}
    /\ UNCHANGED <<pureVars, quotaVars>>
    /\ jobStore' = [jobStore EXCEPT ![j].startedAt = now]
    /\ UNCHANGED <<now, nextSweep, pc, loopVars, outcome, writes, posts>>

\* GET /api/status/:jobId for an id of the store (server.ts 112-127)
Lookup(j) ==
    /\ j \in DOMAIN jobStore
    /\ response' = Reply("status", j, 200, jobStore[j].status,
                          jobStore[j].result, jobStore[j].error)
    /\ signals' = {}
    /\ UNCHANGED <<pureVars, quotaVars>>
    /\ UNCHANGED <<now, nextSweep, jobStore, pc, loopVars, outcome, writes, posts>>

\* the body of the fallback answer (server.ts 132-138)
RemoteReply(job) ==
    [route |-> "status", id |-> job.id, code |-> 200, status |-> job.status,
     result |-> None, error |-> job.error, output |-> job.output]

\* GET /api/status/:jobId for an id that is not in the store
\* (server.ts 112-117, 129-130): the status is asked of the remote
LookupRemote(k, id) ==
    /\ pc[k] = "idle"
    /\ id \notin DOMAIN jobStore
    /\ Silent
    /\ UNCHANGED <<pureVars, quotaVars>>
    /\ pc' = [pc EXCEPT ![k] = "status"]
    /\ remoteId' = [remoteId EXCEPT ![k] = Some(id)]
    /\ inflight' = [inflight EXCEPT ![k] = @ + 1]
    /\ UNCHANGED <<now, nextSweep, jobStore, budget, startTime, timer, polls, last,
                   queryErrors, outcome, writes, posts>>

\* the fallback query resolves (server.ts 130-138)
LookupResolve(k, job) ==
    /\ pc[k] = "status"
    /\ k \in Lookers
    /\ job.id = remoteId[k][1]
    /\ response' = RemoteReply(job)
    /\ signals' = {}
    /\ UNCHANGED <<pureVars, quotaVars>>
    /\ pc' = [pc EXCEPT ![k] = "idle"]
    /\ remoteId' = [remoteId EXCEPT ![k] = None]
    /\ inflight' = [inflight EXCEPT ![k] = @ - 1]
    /\ UNCHANGED <<now, nextSweep, jobStore, budget, startTime, timer, polls, last,
                   queryErrors, outcome, writes, posts>>

\* the fallback query fails in transport (runpod.ts 220-223, server.ts 139-145)
LookupFail(k, e) ==
    /\ pc[k] = "status"
    /\ k \in Lookers
    /\ response' = Reply("status", remoteId[k][1], 500, "", None, Some(StatusQueryMsg(e)))
    /\ signals' = {}
    /\ UNCHANGED <<pureVars, quotaVars>>
    /\ pc' = [pc EXCEPT ![k] = "idle"]
    /\ remoteId' = [remoteId EXCEPT ![k] = None]
    /\ inflight' = [inflight EXCEPT ![k] = @ - 1]
    /\ UNCHANGED <<now, nextSweep, jobStore, budget, startTime, timer, polls, last,
                   queryErrors, outcome, writes, posts>>

\* ------------------------------------------------------------------ time
TickSteps == {pollInterval, maxWaitTime, retention}

TimerPending == \E p \in Procs : timer[p] > now

\* time passes; a timer that is due stays due
Tick(d) ==
    /\ \/ d = pollInterval /\ now < FineTime
       \/ d = maxWaitTime /\ (now < MidTime \/ TimerPending)
       \/ d = retention /\ now < MaxTime
    /\ now' = now + d
    /\ timer' = [p \in Procs |-> IF timer[p] <= now' THEN 0 ELSE timer[p]]
    /\ Silent
    /\ UNCHANGED <<pureVars, quotaVars>>
    /\ UNCHANGED <<posts, nextSweep, jobStore, pc, remoteId, budget, startTime, polls,
                   inflight, last, queryErrors, outcome, writes>>

\* one /api/generate job and one waitForCompletion call
Next ==
    \/ \E t \in BOOLEAN : Generate("job_1", t)
    \/ \E ok \in BOOLEAN, e \in AxiosErrors : RunResolve("job_1", ok, e)
    \/ \E job \in JobResponses(RemoteIdOf("job_1")) : StatusResolve("job_1", job)
    \/ \E e \in AxiosErrors : StatusFail("job_1", e)
    \/ Wake("job_1")
    \/ \E w \in Waiters, max \in WaitBudgets : WaitStart(w, max)
    \/ \E w \in Waiters : \E job \in JobResponses(RemoteIdOf(w)) : WaitResolve(w, job)
    \/ \E w \in Waiters, e \in AxiosErrors : WaitFail(w, e)
    \/ \E w \in Waiters : WaitWake(w)
    \/ Sweep
    \/ Lookup("job_1")
    \/ \E d \in TickSteps : Tick(d)

Spec == Init /\ [][Next]_vars

\* one /api/generate job next to one request of a blocking handler
NextBlocking ==
    \/ Generate("job_1", TRUE)
    \/ \E ok \in BOOLEAN, e \in AxiosErrors : RunResolve("job_1", ok, e)
    \/ \E job \in BriefResponses(RemoteIdOf("job_1")) : StatusResolve("job_1", job)
    \/ Wake("job_1")
    \/ \E b \in Blockers, t \in BOOLEAN : BlockStart(b, t)
    \/ \E b \in Blockers, ok \in BOOLEAN, e \in AxiosErrors : BlockRunResolve(b, ok, e)
    \/ \E b \in Blockers : \E job \in JobResponses(RemoteIdOf(b)) : BlockStatusResolve(b, job)
    \/ \E b \in Blockers, e \in AxiosErrors : BlockStatusFail(b, e)
    \/ \E b \in Blockers : BlockWake(b)
    \/ Sweep
    \/ \E d \in TickSteps : Tick(d)

BlockSpec == Init /\ [][NextBlocking]_vars

\* two /api/generate jobs, the sweep and the lookups of stored ids
NextStore ==
    \/ \E j \in LocalIds : Generate(j, TRUE)
    \/ \E j \in LocalIds, ok \in BOOLEAN, e \in AxiosErrors : RunResolve(j, ok, e)
    \/ \E j \in LocalIds : \E job \in BriefResponses(RemoteIdOf(j)) : StatusResolve(j, job)
    \/ \E j \in LocalIds : Wake(j)
    \/ Sweep
    \/ \E id \in LocalIds : Lookup(id)
    \/ \E d \in TickSteps : Tick(d)

StoreSpec == Init /\ [][NextStore]_vars

\* one /api/generate job, the sweep and the status lookups of every kind
NextLookup ==
    \/ \E t \in BOOLEAN : Generate("job_1", t)
    \/ \E ok \in BOOLEAN, e \in AxiosErrors : RunResolve("job_1", ok, e)
    \/ \E job \in JobResponses(RemoteIdOf("job_1")) : StatusResolve("job_1", job)
    \/ \E e \in AxiosErrors : StatusFail("job_1", e)
    \/ Wake("job_1")
    \/ Sweep
    \/ \E id \in LookupIds : Lookup(id)
    \/ \E k \in Lookers, id \in LookupIds : LookupRemote(k, id)
    \/ \E k \in Lookers, id \in LookupIds : \E job \in JobResponses(id) : LookupResolve(k, job)
    \/ \E k \in Lookers, e \in AxiosErrors : LookupFail(k, e)
    \/ \E d \in TickSteps : Tick(d)

LookupSpec == Init /\ [][NextLookup]_vars

\* one call of executeSync next to one call of waitForCompletion
NextSync ==
    \/ \E s \in Syncers, t \in BOOLEAN : SyncStart(s, t)
    \/ \E s \in Syncers : \E data \in JobResponses(RemoteIdOf(s)) : SyncResolve(s, data)
    \/ \E s \in Syncers, e \in AxiosErrors \cup {AxiosTimeout} : SyncFail(s, e)
    \/ \E w \in Waiters, max \in WaitBudgets : WaitStart(w, max)
    \/ \E w \in Waiters : \E job \in JobResponses(RemoteIdOf(w)) : WaitResolve(w, job)
    \/ \E w \in Waiters, e \in AxiosErrors : WaitFail(w, e)
    \/ \E w \in Waiters : WaitWake(w)
    \/ \E d \in TickSteps : Tick(d)

SyncSpec == Init /\ [][NextSync]_vars

\* the background task alone, with the scheduling the event loop gives it:
\* every remote call returns or fails, timers fire, time passes
NextTask ==
    \/ \E t \in BOOLEAN : Generate("job_1", t)
    \/ \E ok \in BOOLEAN, e \in AxiosErrors : RunResolve("job_1", ok, e)
    \/ \E job \in JobResponses(RemoteIdOf("job_1")) : StatusResolve("job_1", job)
    \/ \E e \in AxiosErrors : StatusFail("job_1", e)
    \/ Wake("job_1")
    \/ Sweep
    \/ \E d \in TickSteps : Tick(d)

LiveSpec ==
    /\ Init
    /\ [][NextTask]_vars
    /\ WF_vars(\E ok \in BOOLEAN, e \in AxiosErrors : RunResolve("job_1", ok, e))
    /\ WF_vars(\/ \E job \in JobResponses(RemoteIdOf("job_1")) : StatusResolve("job_1", job)
               \/ \E e \in AxiosErrors : StatusFail("job_1", e))
    /\ WF_vars(Wake("job_1"))
    /\ WF_vars(\E d \in TickSteps : Tick(d))

\* ------------------------------------------------ requests and the quota
\* the route a requester posts to
RouteOf(p) == IF p \in LocalIds THEN "generate" ELSE Route(p)

Requesters == LocalIds \cup Blockers

\* mutant: a refused request has already stored its pending record
Refuse_AfterPending(p) ==
    /\ IF p \in LocalIds THEN Fresh(p) ELSE pc[p] = "idle"
    /\ Gate(p, RouteOf(p)) # 0
    /\ response' = Reply(RouteOf(p), "", Gate(p, RouteOf(p)), "", None,
                         Some(RefusalText(Gate(p, RouteOf(p)), RouteOf(p))))
    /\ signals' = {}
    /\ pc' = [pc EXCEPT ![p] = "refused"]
    /\ jobStore' = MapSet(jobStore, p, JobRecord("pending", None, None, now))
    /\ UNCHANGED <<now, nextSweep, loopVars, outcome, writes, posts>>
    /\ UNCHANGED <<pureVars, quotaVars>>

\* a generation request that a middleware or the validation of its handler
\* refuses (auth.ts 90-116; server.ts 245-247, 336-338, 438-442): the
\* refusal is answered and the request ends
Refuse(p) ==
    /\ IF p \in LocalIds THEN Fresh(p) ELSE pc[p] = "idle"
    /\ Gate(p, RouteOf(p)) # 0
    /\ response' = Reply(RouteOf(p), "", Gate(p, RouteOf(p)), "", None,
                         Some(RefusalText(Gate(p, RouteOf(p)), RouteOf(p))))
    /\ signals' = {}
    /\ pc' = [pc EXCEPT ![p] = "refused"]
    /\ UNCHANGED <<now, nextSweep, jobStore, loopVars, outcome, writes, posts>>
    /\ UNCHANGED <<pureVars, quotaVars>>

\* the body of GET /api/quota (server.ts 483-505)
QuotaBody(limits, apiKey) ==
    IF apiKey \notin DOMAIN limits
    THEN [limit |-> -1, used |-> 0, remaining |-> -1, unlimited |-> TRUE]
    ELSE [limit |-> limits[apiKey].limit,
          used |-> limits[apiKey].used,
          remaining |-> IF limits[apiKey].limit = -1 THEN -1
                        ELSE limits[apiKey].limit - limits[apiKey].used,
          unlimited |-> limits[apiKey].limit = -1]

\* GET /api/quota (server.ts 156, 469-513)
QuotaRequest(k) ==
    /\ pc[k] = "idle"
    /\ response' =
         IF Gate(k, "quota") # 0
         THEN Reply("quota", "", Gate(k, "quota"), "", None,
                    Some(RefusalText(Gate(k, "quota"), "quota")))
         ELSE Reply("quota", "", 200, "", Some(QuotaBody(keyLimits, req[k].apiKey[1])), None)
    /\ signals' = {}
    /\ UNCHANGED <<now, nextSweep, jobStore, pc, loopVars, outcome, writes, posts>>
    /\ UNCHANGED <<pureVars, quotaVars>>

\* GET /api/status/:jobId with its middleware (server.ts 112-127), for an
\* id of the store
StatusRequest(k, id) ==
    /\ pc[k] = "idle"
    /\ IF Gate(k, "status") = 0
       THEN Lookup(id)
       ELSE /\ response' = Reply("status", "", Gate(k, "status"), "", None,
                                 Some(RefusalText(Gate(k, "status"), "status")))
            /\ signals' = {}
            /\ UNCHANGED <<now, nextSweep, jobStore, pc, loopVars, outcome, writes, posts>>
            /\ UNCHANGED <<pureVars, quotaVars>>

\* every request carries the same header; the bodies of job_1 and edit_1
\* may lack their fields; the limited key has used any part of its limit
InitQuota ==
    /\ Constructed
    /\ workflowFile = UiFile
    /\ jobData = NoJob
    /\ \E header \in Headers, body \in BOOLEAN :
         req = [p \in Procs |-> Request(header, p \notin {"job_1", "edit_1"} \/ body)]
    /\ keyLimits \in KeyLimitsFiles

\* two /api/generate jobs, one blocking request, the refusals and the
\* lookups of status and quota; no time passes
NextQuota ==
    \/ \E j \in LocalIds : Generate(j, TRUE)
    \/ \E j \in LocalIds, ok \in BOOLEAN, e \in AxiosErrors : RunResolve(j, ok, e)
    \/ \E j \in LocalIds : \E job \in BriefResponses(RemoteIdOf(j)) : StatusResolve(j, job)
    \/ \E b \in Blockers : BlockStart(b, TRUE)
    \/ \E b \in Blockers, ok \in BOOLEAN, e \in AxiosErrors : BlockRunResolve(b, ok, e)
    \/ \E b \in Blockers : \E job \in BriefResponses(RemoteIdOf(b)) : BlockStatusResolve(b, job)
    \/ \E p \in Requesters : Refuse(p)
    \/ \E k \in Lookers : QuotaRequest(k)
    \/ \E k \in Lookers, id \in LocalIds : StatusRequest(k, id)

QuotaSpec == InitQuota /\ [][NextQuota]_vars

\* --------------------------------------------- the functions on their own
\* mutant: the workflow is built on a template object that is kept
Build_Shared(c, m) ==
    /\ workflow[c] = None
    /\ workflow' = [workflow EXCEPT ![c] = Some(buildWorkflow(workflowFile, PromptOf(c), m))]
    /\ random' = [random EXCEPT ![c] = Some(m)]
    /\ workflowFile' =
          IF workflowFile.parses
          THEN WorkflowFile(TRUE, buildWorkflow(workflowFile, PromptOf(c), m).workflow)
          ELSE workflowFile
    /\ Silent
    /\ UNCHANGED quotaVars
    /\ UNCHANGED <<jobData, normalized>>
    /\ UNCHANGED <<now, nextSweep, jobStore, pc, loopVars, outcome, writes, posts>>

\* a call of buildWorkflow (runpod.ts 274-354): the file is read and parsed
\* anew, the parsed workflow is rewritten and returned; the call has no
\* suspension point
Build(c, m) ==
    /\ workflow[c] = None
    /\ workflow' = [workflow EXCEPT ![c] = Some(buildWorkflow(workflowFile, PromptOf(c), m))]
    /\ random' = [random EXCEPT ![c] = Some(m)]
    /\ Silent
    /\ UNCHANGED quotaVars
    /\ UNCHANGED <<workflowFile, jobData, normalized>>
    /\ UNCHANGED <<now, nextSweep, jobStore, pc, loopVars, outcome, writes, posts>>

\* a call of processOutput (runpod.ts 359-436)
Normalize ==
    /\ normalized = None
    /\ normalized' = Some(processOutput(jobData))
    /\ Silent
    /\ UNCHANGED quotaVars
    /\ UNCHANGED <<workflowFile, workflow, random, jobData>>
    /\ UNCHANGED <<now, nextSweep, jobStore, pc, loopVars, outcome, writes, posts>>

\* two calls of buildWorkflow on a workflow file of any kind
InitBuild ==
    /\ Constructed
    /\ workflowFile \in WorkflowFiles
    /\ jobData = NoJob
    /\ OpenRequests

NextBuild == \E c \in Calls, m \in Randoms : Build(c, m)

BuildSpec == InitBuild /\ [][NextBuild]_vars

\* one call of processOutput on a remote output of any kind
InitNormalize ==
    /\ Constructed
    /\ workflowFile = UiFile
    /\ jobData \in NormalizerInputs
    /\ OpenRequests

NextNormalize == Normalize

NormSpec == InitNormalize /\ [][NextNormalize]_vars

\* ----------------------------------------------------------------- claims
Last(seq) == seq[Len(seq)]

\* the words by which an error text names a remote status
StatusWords(status) ==
    CASE status = "FAILED" -> {"failed", "Job failed: "}
      [] status = "CANCELLED" -> {"cancelled", "Job cancelled: "}
      [] status = "TIMED_OUT" -> {"timed_out", "Job timed_out: "}
      [] OTHER -> {}

\* what went wrong in the background task of a local id, "none" if nothing
Failure(j) ==
    IF outcome[j].state = "rejected" THEN outcome[j].cause
    ELSE IF outcome[j].state = "fulfilled" /\ ~outcome[j].result.success THEN "normalizer"
    ELSE "none"

\* the record stored under j is a failed record with the error text msg
FailedRecord(j, msg) ==
    /\ jobStore[j].status = "failed"
    /\ jobStore[j].error = Some(msg)
    /\ jobStore[j].result = None

\* C1: in both poll loops, a status query that returns FAILED, CANCELLED or
\* TIMED_OUT ends the loop at that iteration, and the call is rejected with
\* an error that names the remote status and carries the remote error message.
C1_RemoteFailureStopsLoop ==
    \A p \in Procs :
        last[p].status \in RemoteErrorStatuses =>
            /\ pc[p] = "done"
            /\ outcome[p].state = "rejected"
            /\ \E i \in DOMAIN outcome[p].error :
                   outcome[p].error[i] \in StatusWords(last[p].status)
            /\ last[p].error \notin {None, Some("")} =>
                   Last(outcome[p].error) = last[p].error[1]

\* C2: once a status query of a loop has returned a terminal status
\* (COMPLETED, FAILED, CANCELLED, TIMED_OUT), that loop issues no further
\* status query.
C2_NoQueryAfterTerminal ==
    [][\A p \in Procs : last[p].status \in RemoteTerminal => polls'[p] = polls[p]]_vars

\* C3: every job submitted through /api/generate eventually has a completed
\* or failed record, whatever the remote answers, provided every remote call
\* returns or fails.
C3_EventuallyTerminal ==
    (pc["job_1"] \in {"run", "status", "sleep"}) ~>
        ( /\ pc["job_1"] = "done"
          /\ "job_1" \in DOMAIN jobStore
          /\ jobStore["job_1"].status \in LocalTerminal )

C3_Witness ==
    /\ pc["job_1"] = "done"
    /\ polls["job_1"] >= 2
    /\ "job_1" \in DOMAIN jobStore
    /\ jobStore["job_1"].status \in LocalTerminal

\* the error texts of remote-reported failures
RemoteFailureTexts ==
    UNION { {Wrapped(JobFailedMsg(RunPodJob("rp", s, e, NoOutput))),
             WaitFailedMsg(RunPodJob("rp", s, e, NoOutput))} :
            s \in RemoteErrorStatuses, e \in RemoteErrors }

C4_TimeoutText(p) ==
    IF p \in LocalIds
    THEN <<"RunPod execution failed: ", "Job timed out waiting for completion">>
    ELSE <<"Job timed out waiting for completion">>

C4_TimeoutState ==
    \A p \in Procs :
        /\ ( /\ pc[p] = "done"
             /\ last[p].status \notin RemoteTerminal
             /\ queryErrors[p] = 0
             /\ outcome[p].cause \notin {"template", "submit"} )
           => outcome[p].cause = "timeout"
        /\ outcome[p].cause = "timeout" =>
             /\ outcome[p].state = "rejected"
             /\ outcome[p].error = C4_TimeoutText(p)
             /\ outcome[p].error \notin RemoteFailureTexts
             /\ p \in LocalIds =>
                  /\ Last(writes[p]) = "failed"
                  /\ p \in DOMAIN jobStore => FailedRecord(p, C4_TimeoutText(p))

C4_TimeoutStep ==
    \A p \in Procs :
        (outcome[p].state = "pending" /\ outcome'[p].cause = "timeout")
            => now - startTime[p] >= budget[p]

\* C4: a loop whose status queries never return a terminal status (and never
\* fail in transport) ends with the timeout failure, and only once the time
\* since its start has reached its budget (10 minutes in executeAsync,
\* maxWaitTime in waitForCompletion); the timeout text differs from every
\* text of a remote-reported failure, and the record of a /api/generate job
\* is then failed.
C4_TimeoutFailure == [][C4_TimeoutStep /\ C4_TimeoutState']_vars

C4_Witness ==
    /\ outcome["job_1"].cause = "timeout"
    /\ polls["job_1"] >= 1
    /\ "job_1" \in DOMAIN jobStore
    /\ jobStore["job_1"].status = "failed"
    /\ outcome["wait_1"].cause = "timeout"
    /\ polls["wait_1"] >= 1

\* C5: a status lookup for a local id issued while the remote submission of
\* its background task is still in flight returns status pending.
C5_PendingObservable ==
    (response.route = "status" /\ pc[response.id] = "run")
        => response.status = "pending"

\* the moves of a record's status
AllowedMove(from, to) ==
    \/ from = "pending" /\ to = "processing"
    \/ from = "processing" /\ to \in LocalTerminal

\* C6: the statuses written for a local id start with pending and move only
\* pending -> processing -> {completed, failed}; nothing is written after a
\* terminal status, and the stored record carries the latest status written.
C6_StatusMovesForward ==
    \A j \in LocalIds :
        /\ writes[j] # << >> => writes[j][1] = "pending"
        /\ \A i \in 1 .. Len(writes[j]) - 1 : AllowedMove(writes[j][i], writes[j][i + 1])
        /\ j \in DOMAIN jobStore => jobStore[j].status = Last(writes[j])

C6_Witness ==
    /\ writes["job_1"] = <<"pending", "processing", "completed">>
    /\ "job_1" \in DOMAIN jobStore

\* C7: a poll loop has at most one status query in flight, and it is waiting
\* for a status query exactly when one is in flight.
C7_SequentialPolls ==
    \A p \in Procs :
        /\ inflight[p] <= 1
        /\ inflight[p] = 1 <=> pc[p] = "status"

\* two loops interleave: each has a query in flight, each after an earlier one
C7_Witness ==
    /\ inflight["job_1"] = 1 /\ polls["job_1"] >= 2
    /\ inflight["wait_1"] = 1 /\ polls["wait_1"] >= 2

\* C8: a status query that fails in transport ends the loop: the call is
\* rejected with the error of the query, no query is in flight or issued
\* again, and the record of a /api/generate job is failed with that error.
C8_QueryFailureAborts ==
    \A p \in Procs :
        queryErrors[p] > 0 =>
            /\ queryErrors[p] = 1
            /\ pc[p] = "done"
            /\ inflight[p] = 0
            /\ outcome[p].state = "rejected"
            /\ outcome[p].cause = "query"
            /\ \E e \in AxiosErrors :
                 outcome[p].error =
                   IF p \in LocalIds
                   THEN <<"RunPod execution failed: ", "Failed to get job status: ", e>>
                   ELSE <<"Failed to get job status: ", e>>
            /\ p \in LocalIds =>
                 /\ Last(writes[p]) = "failed"
                 /\ p \in DOMAIN jobStore => FailedRecord(p, outcome[p].error)

C8_Witness ==
    /\ queryErrors["job_1"] = 1
    /\ polls["job_1"] >= 2
    /\ "job_1" \in DOMAIN jobStore
    /\ jobStore["job_1"].status = "failed"
    /\ queryErrors["wait_1"] = 1

\* C9: every failure in the background task of a /api/generate job leaves a
\* failed record with a non-empty error text: never a pending, processing or
\* completed one.
C9_EveryFailureRecorded ==
    \A j \in LocalIds :
        Failure(j) # "none" =>
            /\ Last(writes[j]) = "failed"
            /\ j \in DOMAIN jobStore =>
                 /\ jobStore[j].status = "failed"
                 /\ jobStore[j].error # None
                 /\ \E i \in DOMAIN jobStore[j].error[1] : jobStore[j].error[1][i] # ""

\* C10 as stated: FAILED with error m on the first poll gives the record
\* {status: failed, error: m}, the message verbatim.
C10_VerbatimError ==
    \A j \in LocalIds :
        ( /\ polls[j] = 1
          /\ last[j].status = "FAILED"
          /\ last[j].error # None
          /\ j \in DOMAIN jobStore )
        => FailedRecord(j, <<last[j].error[1]>>)

\* the text executeAsync gives a remote FAILED with error field e
C10_Text(e) ==
    <<"RunPod execution failed: ", "Job failed: ",
      IF e \in {None, Some("")} THEN "Unknown error" ELSE e[1]>>

\* C10 amended: a status query that returns FAILED with error m ends the
\* loop: the record becomes failed with the error text
\* "RunPod execution failed: Job failed: " followed by m (by "Unknown error"
\* when m is absent or empty), and no further status query is issued, so
\* that FAILED on the first poll leaves exactly one status query.
C10_PrefixedError ==
    [][\A j \in LocalIds :
          last'[j].status = "FAILED" =>
              /\ pc'[j] = "done"
              /\ inflight'[j] = 0
              /\ Last(writes'[j]) = "failed"
              /\ outcome'[j].error = C10_Text(last'[j].error)
              /\ j \in DOMAIN jobStore' =>
                   /\ jobStore'[j].status = "failed"
                   /\ jobStore'[j].error = Some(C10_Text(last'[j].error))
                   /\ jobStore'[j].result = None
              /\ polls'[j] = polls[j]]_vars

C10_Witness ==
    /\ polls["job_1"] = 1
    /\ last["job_1"].status = "FAILED"
    /\ last["job_1"].error = Some("OOM")
    /\ pc["job_1"] = "done"
    /\ "job_1" \in DOMAIN jobStore
    /\ jobStore["job_1"].error =
         Some(<<"RunPod execution failed: ", "Job failed: ", "OOM">>)

\* the list L of a flat output whose elements are all image strings
StringList(output) ==
    /\ output.present
    /\ output.imagesIsArray
    /\ \A i \in DOMAIN output.images : output.images[i].type = "string"

Strings(imgs) == [i \in 1 .. Len(imgs) |-> imgs[i].str]

\* the record of j is completed with the images L
CompletedWith(store, j, L) ==
    /\ j \in DOMAIN store
    /\ store[j].status = "completed"
    /\ store[j].error = None
    /\ store[j].result # None
    /\ store[j].result[1].images = L

C11_Step ==
    \A j \in LocalIds :
        ( /\ pc[j] = "status"
          /\ polls[j] = 2
          /\ last[j].status = "IN_QUEUE"
          /\ last'[j].status = "COMPLETED"
          /\ StringList(last'[j].output) )
        => /\ pc'[j] = "done"
           /\ polls'[j] = 2
           /\ inflight'[j] = 0
           /\ CompletedWith(jobStore', j, Strings(last'[j].output.images))

C11_Final ==
    \A j \in LocalIds :
        ( /\ pc[j] = "done"
          /\ last[j].status = "COMPLETED"
          /\ StringList(last[j].output)
          /\ j \in DOMAIN jobStore )
        => CompletedWith(jobStore, j, Strings(last[j].output.images))

\* C11: when the first status query of a /api/generate job returns IN_QUEUE
\* and the second returns COMPLETED with output.images = L, a list of image
\* strings, the job ends at that step with a record of status completed
\* whose result.images is L (same elements, same order), after exactly two
\* status queries, and the record keeps these images while it is stored.
C11_QueuedThenCompleted == [][C11_Step /\ C11_Final']_vars

C11_Witness ==
    /\ pc["job_1"] = "done"
    /\ polls["job_1"] = 2
    /\ last["job_1"].status = "COMPLETED"
    /\ CompletedWith(jobStore, "job_1", <<"aGVsbG8=", "d29ybGQ=">>)

\* C12: a step of a blocking handler (/api/edit-image, /api/generate-dual)
\* leaves the job store as it is: no entry created, modified or deleted, on
\* success as on failure; when execute() is rejected the handler answers its
\* caller with a 500 response that carries the error message, and when it is
\* fulfilled with a 200 response that carries the images.
C12_BlockingLeavesStore ==
    [][\A b \in Blockers :
          pc'[b] # pc[b] =>
              /\ jobStore' = jobStore
              /\ writes' = writes
              /\ outcome'[b].state = "rejected" =>
                   response' = Reply(Route(b), b, 500, "", None, Some(outcome'[b].error))
              /\ outcome'[b].state = "fulfilled" =>
                   /\ response'.code = 200
                   /\ response'.result[1].images = outcome'[b].result.images]_vars

\* a blocking request fails in its poll loop while the store holds a record
C12_Witness ==
    /\ \E b \in Blockers :
         /\ response = Reply(Route(b), b, 500, "", None, Some(outcome[b].error))
         /\ outcome[b].state = "rejected"
         /\ polls[b] >= 2
    /\ "job_1" \in DOMAIN jobStore
    /\ jobStore["job_1"].status = "processing"

\* a step of the periodic sweep
SweepStep == nextSweep' # nextSweep

\* C13: a run of the sweep removes exactly the records whose age
\* now - startedAt exceeds the retention window of one hour, and leaves every
\* other record as it was (same key, status, result, error and startedAt).
C13_SweepRemovesExpired ==
    [][SweepStep =>
          /\ DOMAIN jobStore' =
               {k \in DOMAIN jobStore : ~(now - jobStore[k].startedAt > 3600000)}
          /\ \A k \in DOMAIN jobStore' : jobStore'[k] = jobStore[k]]_vars

\* a sweep has removed the record of job_1 and kept the younger one of job_2
C13_Witness ==
    /\ writes["job_1"] # << >>
    /\ "job_1" \notin DOMAIN jobStore
    /\ "job_2" \in DOMAIN jobStore
    /\ nextSweep > sweepInterval
    /\ jobStore["job_2"].startedAt < nextSweep - sweepInterval

\* C14: a local id that is in the store leaves it only in a step of the
\* sweep: no handler and no background task removes an entry.
C14_OnlySweepDeletes ==
    [][\A j \in LocalIds :
          (j \in DOMAIN jobStore /\ j \notin DOMAIN jobStore') =>
              /\ SweepStep
              /\ UNCHANGED <<now, pc, outcome, writes, posts, polls>>]_vars

\* the record of a finished job is gone and a later task step has failed
C14_Witness ==
    /\ pc["job_1"] = "done"
    /\ "job_1" \notin DOMAIN jobStore
    /\ pc["job_2"] = "done"
    /\ "job_2" \in DOMAIN jobStore
    /\ jobStore["job_2"].status = "failed"

\* a step of GET /api/status/:jobId that answers from the store
StoreAnswer ==
    /\ response'.route = "status"
    /\ \A k \in Lookers : pc'[k] = pc[k]

\* C15: GET /api/status/:jobId changes no record.  For an id in the store it
\* answers with the status, result and error of that record; for an id that
\* is not in the store it asks the remote (one status query), answers with
\* what the remote returns, and creates no record.
C15_LookupReadOnly ==
    [][/\ StoreAnswer =>
            /\ response'.id \in DOMAIN jobStore
            /\ response' = Reply("status", response'.id, 200,
                                 jobStore[response'.id].status,
                                 jobStore[response'.id].result,
                                 jobStore[response'.id].error)
            /\ jobStore' = jobStore
            /\ inflight' = inflight
       /\ \A k \in Lookers :
            /\ (pc[k] = "idle" /\ pc'[k] = "status") =>
                 /\ remoteId'[k][1] \notin DOMAIN jobStore
                 /\ inflight'[k] = 1
                 /\ jobStore' = jobStore
            /\ (pc[k] = "status" /\ pc'[k] = "idle") =>
                 /\ jobStore' = jobStore
                 /\ response'.route = "status"
                 /\ response'.id = remoteId[k][1]
                 /\ response'.code = 200 => response'.status \in Statuses]_vars

\* both kinds of lookup have answered: the latest from the remote, for a
\* local id whose record the sweep has removed
C15_Witness ==
    /\ response.route = "status"
    /\ response.id = "job_1"
    /\ response.code = 200
    /\ response.status \in Statuses
    /\ writes["job_1"] # << >>
    /\ "job_1" \notin DOMAIN jobStore

\* the callers that run a poll loop
Pollers == LocalIds \cup Waiters \cup Blockers

\* the cold-start signal of the loop of p
ColdStart(p) == [kind |-> "coldStart", proc |-> p]

\* a status query of the loop of p has returned a status in this step
Observed(p) == inflight'[p] < inflight[p] /\ queryErrors'[p] = queryErrors[p]

\* the step observes p still queued more than 15 seconds after its start
QueuedTooLong(p) ==
    /\ Observed(p)
    /\ last'[p].status = "IN_QUEUE"
    /\ now - startTime[p] > 15000

C16_Step(ps) ==
    /\ \A p \in ps :
         /\ QueuedTooLong(p) <=> ColdStart(p) \in signals'
         /\ ColdStart(p) \in signals' =>
              /\ pc'[p] = "sleep"
              /\ outcome'[p] = outcome[p]
              /\ polls'[p] = polls[p]
              /\ budget'[p] = budget[p] /\ startTime'[p] = startTime[p]
    /\ \A sig \in signals' : sig.proc \in ps

\* C16: in every poll loop (executeAsync and waitForCompletion), a step that
\* observes the job IN_QUEUE more than 15 seconds after the start of the loop
\* emits the cold-start signal; no other step emits it, and the emitting
\* step goes on as for any non-terminal status: it sleeps, with the loop's
\* budget, start time, query count and outcome unchanged.
C16_ColdStartSignal == [][C16_Step(Pollers)]_vars

\* the same for the loops of executeAsync alone
C16_ColdStartSignalAsync == [][C16_Step(LocalIds \cup Blockers)]_vars

C16_AsyncWitness ==
    /\ ColdStart("job_1") \in signals
    /\ pc["job_1"] = "sleep"

Executors == LocalIds \cup Blockers

\* C18: when the job template cannot be read or parsed, execute() is
\* rejected with the template error before any remote call: no POST and no
\* status query is issued for that call, and the record of a /api/generate
\* job is failed with that error.
C18_TemplateFailureAborts ==
    \A p \in Executors :
        outcome[p].cause = "template" =>
            /\ posts[p] = 0
            /\ polls[p] = 0
            /\ inflight[p] = 0
            /\ remoteId[p] = None
            /\ pc[p] = "done"
            /\ outcome[p].state = "rejected"
            /\ outcome[p].error = <<"Failed to load ComfyUI workflow file">>
            /\ p \in LocalIds =>
                 /\ Last(writes[p]) = "failed"
                 /\ p \in DOMAIN jobStore => FailedRecord(p, outcome[p].error)

C18_Witness ==
    /\ outcome["job_1"].cause = "template"
    /\ "job_1" \in DOMAIN jobStore
    /\ jobStore["job_1"].status = "failed"
    /\ posts["job_1"] = 0

\* the state of a call whose POST /run has failed
C19_Failed(p) ==
    /\ posts[p] = 1
    /\ polls[p] = 0
    /\ inflight[p] = 0
    /\ remoteId[p] = None
    /\ pc[p] = "done"
    /\ outcome[p].state = "rejected"
    /\ \E e \in AxiosErrors : outcome[p].error = <<"RunPod execution failed: ", e>>
    /\ p \in LocalIds =>
         /\ Last(writes[p]) = "failed"
         /\ p \in DOMAIN jobStore => FailedRecord(p, outcome[p].error)

C19_State ==
    \A p \in Executors :
        /\ outcome[p].cause = "submit" => C19_Failed(p)
        /\ polls[p] > 0 => remoteId[p] # None

\* C19: when POST /run fails, execute() is rejected with the error of the
\* POST, no status query is issued for that call then or later (a status
\* query is only ever issued with the remote id a successful POST returned),
\* and the record of a /api/generate job is failed with that error.
C19_SubmitFailureAborts ==
    [][/\ \A p \in Executors :
            (pc[p] = "run" /\ pc'[p] # "run" /\ remoteId'[p] = None) =>
                outcome'[p].cause = "submit"
       /\ C19_State']_vars

C19_Witness ==
    /\ outcome["job_1"].cause = "submit"
    /\ posts["job_1"] = 1
    /\ "job_1" \in DOMAIN jobStore
    /\ jobStore["job_1"].error = Some(<<"RunPod execution failed: ", "Network Error">>)

\* C20: executeSync makes one remote call (the POST /runsync) and no status
\* query, and its result reflects a terminal remote response: of the
\* terminal statuses it reports success only for COMPLETED, and a response
\* with status FAILED, CANCELLED or TIMED_OUT is surfaced as a failure.
C20_SyncReflectsRemote ==
    \A s \in Syncers :
        pc[s] = "done" =>
            /\ posts[s] <= 1
            /\ polls[s] = 0
            /\ ( /\ outcome[s].state = "fulfilled"
                 /\ outcome[s].result.success
                 /\ last[s].status \in RemoteTerminal ) =>
                 last[s].status = "COMPLETED"
            /\ last[s].status \in RemoteErrorStatuses =>
                 \/ outcome[s].state = "rejected"
                 \/ ~outcome[s].result.success

\* the part that holds: one POST at most, no status query
C20_SyncSingleCall ==
    \A s \in Syncers : posts[s] <= 1 /\ polls[s] = 0 /\ inflight[s] = 0

\* an element of an images list read as the claim reads it: a raw string,
\* or an object with a data, image or base64 field
Accepted(img) ==
    IF img.type = "string" THEN <<img.str>>
    ELSE IF img.data # "" THEN <<img.data>>
    ELSE IF img.image # "" THEN <<img.image>>
    ELSE IF img.base64 # "" THEN <<img.base64>>
    ELSE << >>

RECURSIVE AcceptedOf(_)
AcceptedOf(imgs) ==
    IF imgs = << >> THEN << >> ELSE Accepted(Head(imgs)) \o AcceptedOf(Tail(imgs))

RECURSIVE AcceptedOfNodes(_)
AcceptedOfNodes(nodes) ==
    IF nodes = << >> THEN << >>
    ELSE (IF Head(nodes).hasImages THEN AcceptedOf(Head(nodes).images) ELSE << >>)
         \o AcceptedOfNodes(Tail(nodes))

\* every image of the three shapes of an output, in discovery order
AllFound(output) ==
    (IF output.imagesIsArray THEN AcceptedOf(output.images) ELSE << >>)
    \o (IF output.image # "" THEN <<output.image>> ELSE << >>)
    \o AcceptedOfNodes(output.nodes)

\* no element of a list and no node of the output is null
WellFormed(output) ==
    /\ \A i \in DOMAIN output.images : output.images[i].type # "null"
    /\ \A k \in DOMAIN output.nodes :
         /\ ~output.nodes[k].isNull
         /\ \A i \in DOMAIN output.nodes[k].images : output.nodes[k].images[i].type # "null"

\* C21: processOutput searches all three shapes of the remote output (the
\* output.images list, the single output.image field, the per-node mapping)
\* and returns every image found, in discovery order, taking from each list
\* the raw strings and the objects with a data, image or base64 field.
C21_SearchesAllShapes ==
    (normalized # None /\ jobData.output.present /\ WellFormed(jobData.output))
        => normalized[1].images = AllFound(jobData.output)

\* the sequences of images, and the three presentations of one
ImageSeqs == UNION { [1 .. k -> ImageData] : k \in 0 .. MaxImages }
AsStrings(seq) == [i \in DOMAIN seq |-> StrImg(seq[i])]
AsDataObjects(seq) == [i \in DOMAIN seq |-> ObjImg(seq[i], "", "")]
Presentations(seq) ==
    { FlatOutput(AsStrings(seq)),
      FlatOutput(AsDataObjects(seq)),
      NodesOutput(<<NodeOut(FALSE, TRUE, AsStrings(seq))>>),
      NodesOutput(<<NodeOut(FALSE, TRUE, AsDataObjects(seq))>>) }

\* C22: a sequence of images presented as a flat array of strings, as an
\* array of {data} objects or as a per-node {images: [...]} mapping is
\* normalized to the same images: as many as the sequence has, in its order.
C22_ShapesAgree ==
    \A seq \in ImageSeqs :
        (normalized # None /\ jobData.output \in Presentations(seq))
            => /\ normalized[1].success
               /\ normalized[1].images = seq

C22_Witness ==
    /\ normalized # None
    /\ jobData.output =
         NodesOutput(<<NodeOut(FALSE, TRUE, AsDataObjects(<<"aGVsbG8=", "d29ybGQ=">>))>>)
    /\ normalized[1].images = <<"aGVsbG8=", "d29ybGQ=">>

\* the workflow of the file, before a build rewrites it
Template == ExtractWorkflow(workflowFile.json)

\* the calls of buildWorkflow that have returned a workflow
Built == { c \in Calls : workflow[c] # None /\ ~workflow[c][1].thrown }

\* C23: buildWorkflow leaves every node it does not target untouched: the
\* workflow it returns has the node ids of the template, and every node
\* other than 111, 110, 37, 38, 39, 66, 75 and 3 has all its fields unchanged.
C23_OtherNodesUntouched ==
    \A c \in Built :
        /\ DOMAIN workflow[c][1].workflow = DOMAIN Template
        /\ \A n \in DOMAIN Template \ TargetIds : workflow[c][1].workflow[n] = Template[n]

C23_Witness ==
    /\ "call_1" \in Built
    /\ "37" \notin DOMAIN Template
    /\ HasInputs(Template, "111")
    /\ workflow["call_1"][1].workflow["111"].inputs[1]["text"] = Str(PromptOf("call_1"))
    /\ workflow["call_1"][1].workflow["440"] = UiNode("440")

\* the rewrite of node n has nothing to work on: the node, its inputs or
\* its UI field (filename of a loader, value of nodes 66 and 75) is missing
Skipped(n) ==
    \/ n \notin DOMAIN Template
    \/ Template[n].inputs = None
    \/ n \in {"37", "38", "39", "66", "75"} /\ FieldOf(n) \notin DOMAIN Template[n].inputs[1]

\* C24: when a targeted node, its inputs or its UI field is missing from a
\* workflow file that loads, buildWorkflow returns without error, does not
\* create the node and leaves the node as it is (no inputs, no field created).
C24_MissingIsSkipped ==
    \A c \in Calls :
        (workflow[c] # None /\ workflowFile.parses) =>
            /\ ~workflow[c][1].thrown
            /\ \A n \in TargetIds :
                 Skipped(n) =>
                     /\ n \in DOMAIN workflow[c][1].workflow <=> n \in DOMAIN Template
                     /\ n \in DOMAIN Template => workflow[c][1].workflow[n] = Template[n]

\* a loader node without filename is skipped while the prompt is injected
C24_Witness ==
    /\ "call_2" \in Built
    /\ "38" \in DOMAIN Template
    /\ Template["38"].inputs = Some(NoFields)
    /\ workflow["call_2"][1].workflow["38"].inputs = Some(NoFields)
    /\ HasInputs(Template, "111")
    /\ workflow["call_2"][1].workflow["111"].inputs[1]["prompt"] = Str(PromptOf("call_2"))

\* C25: the rewrites are idempotent: on a workflow that buildWorkflow has
\* returned, the negative-prompt injection and the loader normalization
\* change nothing, and neither does a second pass of all rewrites with the
\* same prompt and seed; the negative prompt text is the empty string.
C25_RewritesIdempotent ==
    \A c \in Built :
        LET w == workflow[c][1].workflow IN
        /\ ConvertLoaders(NegativePrompt(w)) = w
        /\ Rewrite(w, PromptOf(c), random[c][1]) = w
        /\ HasInputs(w, "110") =>
             /\ w["110"].inputs[1]["text"] = Str("")
             /\ w["110"].inputs[1]["prompt"] = Str("")

\* the template has a negative prompt text and a loader in UI format
C25_Witness ==
    /\ "call_1" \in Built
    /\ {"110", "37"} \subseteq DOMAIN Template
    /\ Template["110"] = UiNode("110")
    /\ Template["37"] = UiNode("37")
    /\ workflow["call_1"][1].workflow["110"].inputs[1]["text"] = Str("")
    /\ workflow["call_1"][1].workflow["37"].inputs[1]["unet_name"] = UiNode("37").inputs[1]["filename"]

C26_Step ==
    /\ workflowFile' = workflowFile
    /\ \A c \in Calls :
         /\ workflow[c] # None => workflow'[c] = workflow[c]
         /\ workflow'[c] # None =>
              /\ workflow'[c][1] = buildWorkflow(workflowFile, PromptOf(c), random'[c][1])
              /\ \A d \in Calls \ {c} :
                   HasInputs(workflow'[c][1].workflow, "111") =>
                       workflow'[c][1].workflow["111"].inputs[1]["text"] # Str(PromptOf(d))

\* C26: every call builds its workflow from a fresh copy of the template:
\* whatever the order of the calls, the workflow of a call is the template
\* of the file rewritten with the prompt and the seed of that call alone, it
\* never carries the prompt of another call, a later call leaves it as it
\* is, and the workflow file is never modified.
C26_FreshCopyPerCall == [][C26_Step]_vars

\* two calls have built, each with its own prompt and its own seed
C26_Witness ==
    /\ Built = Calls
    /\ random["call_1"] # random["call_2"]
    /\ HasInputs(Template, "111") /\ HasInputs(Template, "3")
    /\ \A c \in Calls :
         /\ workflow[c][1].workflow["111"].inputs[1]["text"] = Str(PromptOf(c))
         /\ workflow[c][1].workflow["3"].inputs[1]["seed"] = Num(randomSeed(random[c][1]))
    /\ workflow["call_1"][1].workflow["3"].inputs[1]["seed"]
         # workflow["call_2"][1].workflow["3"].inputs[1]["seed"]

\* C28: the seed a build injects into node 3 is an integer s with
\* 0 <= s < 10^15: each of its three limbs of base 10^5 is within 0 .. 10^5 - 1.
C28_SeedInRange ==
    \A c \in Built :
        HasInputs(workflow[c][1].workflow, "3") =>
            LET seed == workflow[c][1].workflow["3"].inputs[1]["seed"] IN
            /\ seed.kind = "number"
            /\ \A i \in 1 .. 3 : seed.num[i] \in 0 .. Limb - 1

\* the largest Math.random() gives a seed in the upper half of the range
C28_Witness ==
    /\ "call_1" \in Built
    /\ random["call_1"] = Some(2 ^ RandomBits - 1)
    /\ HasInputs(Template, "3")
    /\ workflow["call_1"][1].workflow["3"].inputs[1]["seed"].num[1] >= Limb \div 2

\* the step writes the record under local id j
Written(j) ==
    /\ j \in DOMAIN jobStore'
    /\ j \notin DOMAIN jobStore \/ jobStore'[j] # jobStore[j]

C27_Step ==
    \A j \in LocalIds :
        Written(j) =>
            /\ writes'[j] # writes[j]
            /\ jobStore'[j].status = Last(writes'[j])
            /\ pc'[j] # pc[j]
            /\ \A k \in LocalIds \ {j} :
                 /\ k \in DOMAIN jobStore' <=> k \in DOMAIN jobStore
                 /\ k \in DOMAIN jobStore => jobStore'[k] = jobStore[k]
                 /\ writes'[k] = writes[k]
                 /\ pc'[k] = pc[k]

\* C27: under every interleaving of the background tasks of two jobs, the
\* status lookups and the sweep, a step that writes the record of a local
\* id is a step of the handler or background task of that id's submission,
\* and it leaves the record under the other local id as it is.
C27_WritesStayOnOwnId == [][C27_Step]_vars

\* both jobs have a record, one completed while the other is still polling
C27_Witness ==
    /\ LocalIds \subseteq DOMAIN jobStore
    /\ jobStore["job_1"].status = "completed"
    /\ jobStore["job_2"].status = "processing"
    /\ polls["job_2"] >= 1

\* C29: startedAt is fixed at submission: as long as the record of a local
\* id stays in the store, every later write keeps the startedAt that the
\* pending record was created with.
C29_StartedAtFixed ==
    [][\A j \in LocalIds :
          (j \in DOMAIN jobStore /\ j \in DOMAIN jobStore')
              => jobStore'[j].startedAt = jobStore[j].startedAt]_vars

\* C30: once the sweep has removed the record of a local id, the id stays
\* absent: no later write of its background task brings the record back.
C30_SweptStaysAbsent ==
    [][\A j \in LocalIds :
          (writes[j] # << >> /\ j \notin DOMAIN jobStore) => j \notin DOMAIN jobStore']_vars

\* C31: in every reachable state every record of the job store has a result
\* exactly when its status is completed and an error exactly when its status
\* is failed; a pending or processing record has neither.
C31_NoPartialResult ==
    \A id \in DOMAIN jobStore :
        /\ jobStore[id].status \in {"pending", "processing", "completed", "failed"}
        /\ jobStore[id].result # None <=> jobStore[id].status = "completed"
        /\ jobStore[id].error # None <=> jobStore[id].status = "failed"

\* C31 witness: the store holds a completed record and a failed one at once
C31_Witness ==
    /\ \E id \in DOMAIN jobStore :
          jobStore[id].status = "completed" /\ jobStore[id].result # None
    /\ \E id \in DOMAIN jobStore :
          jobStore[id].status = "failed" /\ jobStore[id].error # None

\* C32: a local job record is completed only if a status query of its
\* remote job returned COMPLETED and the result normalizer succeeded on that
\* response; a normalizer failure never yields a completed record.
C32_CompletedOnlyOnSuccess ==
    \A j \in LocalIds :
        (j \in DOMAIN jobStore /\ jobStore[j].status = "completed") =>
            /\ last[j].status = "COMPLETED"
            /\ outcome[j].state = "fulfilled"
            /\ outcome[j].result.success

\* one step of a call of executeAsync, seen from its remote calls
C33_Step(p) ==
    /\ posts'[p] \in {posts[p], posts[p] + 1}
    /\ posts'[p] <= 1
    /\ posts'[p] > posts[p] => (pc[p] = "idle" /\ polls[p] = 0 /\ remoteId[p] = None)
    /\ remoteId'[p] # remoteId[p] =>
          (pc[p] = "run" /\ remoteId[p] = None /\ remoteId'[p] = Some(RemoteIdOf(p)))
    /\ polls'[p] > polls[p] =>
          /\ posts[p] = 1
          /\ pc[p] \in {"run", "sleep"}
          /\ pc'[p] = "status"
          /\ remoteId'[p] = Some(RemoteIdOf(p))
    /\ last'[p] # last[p] => last'[p].id = remoteId[p][1]

\* C33: for every job run by executeAsync exactly one POST /run is made and
\* it is never repeated; every status query of the job is issued after the
\* response of the submission was received and uses the remote job id that
\* the submission returned.
C33_OneSubmissionThenQueries == [][\A p \in Executors : C33_Step(p)]_vars

\* C33 witness: a job that was submitted once has polled twice with its id
C33_Witness ==
    /\ posts["job_1"] = 1
    /\ polls["job_1"] >= 2
    /\ remoteId["job_1"] = Some("rp_1")
    /\ last["job_1"].id = "rp_1"
    /\ posts["edit_1"] = 1
    /\ polls["edit_1"] >= 1

\* the key is listed in key-limits.json with a finite limit
Limited(key) == key \in DOMAIN keyLimits /\ keyLimits[key].limit # -1

\* C34: for an API key with a finite limit the used counter never exceeds
\* the limit, under any interleaving of the generation requests made with
\* that key and of their background completions.
C34_UsedWithinLimit ==
    \A key \in DOMAIN keyLimits :
        Limited(key) => keyLimits[key].used <= keyLimits[key].limit

\* the requests whose generation completes successfully in this step
C35_Completing ==
    { p \in Requesters :
        /\ outcome[p].state # "fulfilled"
        /\ outcome'[p].state = "fulfilled"
        /\ outcome'[p].result.success
        /\ req[p].apiKey # None
        /\ req[p].apiKey[1] \in DOMAIN keyLimits }

\* C35: every generation that completes successfully for a key listed in
\* key-limits.json, through /api/generate, /api/generate-dual or
\* /api/edit-image, increments the used counter of that key by exactly one;
\* failed generations and the lookups of status and quota never change it.
C35_OneIncrementPerSuccess ==
    [][/\ \A p \in C35_Completing :
            keyLimits' = [keyLimits EXCEPT ![req[p].apiKey[1]].used = @ + 1]
       /\ C35_Completing = {} => keyLimits' = keyLimits]_vars

\* the header carries a valid key whose quota is exhausted
Exhausted(header) ==
    /\ header # None
    /\ header[1] \in VALID_API_KEYS
    /\ Limited(header[1])
    /\ keyLimits[header[1]].used >= keyLimits[header[1]].limit

\* C36: a valid key whose quota is exhausted is refused with 429 on the
\* generation endpoints and is still accepted on GET /api/status/:jobId and
\* on GET /api/quota, which skip the quota check.
C36_ExhaustedKeyStillLooksUp ==
    [][/\ \A p \in Requesters :
            (Exhausted(req[p].apiKey) /\ pc[p] = "idle" /\ pc'[p] # "idle") =>
                (pc'[p] = "refused" /\ response'.code = 429)
       /\ \A k \in Lookers :
            (Exhausted(req[k].apiKey) /\ response'.route \in {"status", "quota"}) =>
                response'.code \in {200, 404}]_vars

\* C36, the part that holds: generation refused with 429, status accepted
C36_StatusAccepted ==
    [][/\ \A p \in Requesters :
            (Exhausted(req[p].apiKey) /\ pc[p] = "idle" /\ pc'[p] # "idle") =>
                (pc'[p] = "refused" /\ response'.code = 429)
       /\ \A k \in Lookers :
            (Exhausted(req[k].apiKey) /\ response'.route = "status") =>
                response'.code \in {200, 404}]_vars

\* a refused request to POST /api/generate has left no trace
C37_NoTrace(j) ==
    /\ j \notin DOMAIN jobStore
    /\ writes[j] = << >>
    /\ posts[j] = 0
    /\ polls[j] = 0
    /\ remoteId[j] = None

\* C37: a request to POST /api/generate that is refused by authentication
\* (401 without a key, 403 with an invalid key), by the quota check (429) or
\* by validation (400 without a prompt) has no effect: no local id is
\* minted, no job store entry is created and no remote call is made.
C37_RefusalHasNoEffect ==
    [][\A j \in LocalIds :
          /\ (pc[j] = "idle" /\ pc'[j] # "idle" /\ Gate(j, "generate") # 0) =>
                /\ pc'[j] = "refused"
                /\ response'.route = "generate"
                /\ response'.code = Gate(j, "generate")
                /\ response'.code \in {400, 401, 403, 429}
                /\ response'.id = ""
                /\ response'.status = ""
                /\ UNCHANGED <<jobStore, writes, posts, polls, inflight, remoteId, keyLimits>>
          /\ pc'[j] = "refused" => C37_NoTrace(j)']_vars

\* C37 witness: the request of job_1 was refused for its exhausted quota
\* and nothing of it exists
C37_Witness ==
    /\ pc["job_1"] = "refused"
    /\ response.route = "generate"
    /\ response.code = 429
    /\ C37_NoTrace("job_1")
    /\ keyLimits["key_ltd"].used = QuotaLimit

====
